---- MODULE Spec2Model ----
(***************************************************************************)
(* Verification model of the Verilog -> Turing Complete schematic          *)
(* compiler: the netlist adapter (src/netlist/adapter.ts), the constant    *)
(* folding pass and wire encoder (src/pipeline/verilogToTc.ts), the layout *)
(* bridge (src/layout/graphBuilder.ts) and the save writer.                *)
(*                                                                         *)
(* JavaScript strings that the code builds by concatenation (component     *)
(* ids, net ids) are records here, one field per concatenated part, so     *)
(* that two ids are equal exactly when the concatenated strings are.       *)
(***************************************************************************)
EXTENDS Integers, Sequences, FiniteSets, TLC

VARIABLES
  pc,          \* position of the compile in convertVerilogToSave
  components,  \* NetlistGraph.components (ordered)
  nets,        \* NetlistGraph.nets : net id -> [source, sinks]
  netOrder,    \* insertion order of the nets Map (its iteration order)
  counter,     \* buildNetlistFromYosys' constant counter {zero, one}
  err,         \* message of the exception that aborted the compile, or "none"
  ports,       \* module ports read so far (the synthesizer JSON consumed)
  cells,       \* module cells lowered so far
  layout,      \* the LayoutResult (node placements, routed edges)
  payload,     \* the save payload (component and wire records)
  wire,        \* a polyline handed to encodeWire, and what encodeWire returned
  save,        \* a TCSavePayload handed to TCSaveWriter, and what build returned
  driver,      \* the hierarchy driver (main): modules, files written, exit code
  binarySink,  \* a BinarySink write request, and what the write left in the sink
  firstRun,    \* what the first of two compiles in one process was given and returned
  pack         \* a packBits call: the bits and size given, the id counter, the bus returned

vars == <<pc, components, nets, netOrder, counter, err, ports, cells, layout, payload, wire, save, driver, binarySink, firstRun, pack>>

----------------------------------------------------------------------------
(* Bounds of the explored input family *)

MaxInputs == 3
MaxCells == 1

----------------------------------------------------------------------------
(* Identifiers *)

\* a component id: base names the cell or module port, role/port/sfx are the
\* suffixes the adapter appends
CompId(base, role) == [base |-> base, role |-> role, port |-> "", sfx |-> ""]

NoComp == CompId("", "")

PortRef(componentId, portId) == [componentId |-> componentId, portId |-> portId]

NoRef == PortRef(NoComp, "")

\* a net id: the synthesizer's bit number, or a kind-tagged internal wire
NetId(kind, base, n) == [kind |-> kind, base |-> base, n |-> n]

NoNet == NetId("", "", 0)

\* a synthesizer bit reference: a number or one of the literals "0" "1" "x" "z"
Bit(n) == [lit |-> "n", n |-> n]
Lit(s) == [lit |-> s, n |-> 0]

CONST_ZERO_ID == "__const0"
CONST_ONE_ID == "__const1"

----------------------------------------------------------------------------
(* Netlist model operations (adapter.ts) *)

\* a graph under construction; err carries a thrown exception, after which
\* every later operation is skipped
Graph(cs, ns, ord, ctr, e) ==
  [components |-> cs, nets |-> ns, order |-> ord, counter |-> ctr, err |-> e]

Throw(g, msg) == IF g.err = "none" THEN [g EXCEPT !.err = msg] ELSE g

EmptyNet(bitId) == [id |-> bitId, source |-> NoRef, sinks |-> <<>>]

\* nets.get(bitId) ?? { id: bitId, sinks: [] }
GetNet(ns, bitId) == IF bitId \in DOMAIN ns THEN ns[bitId] ELSE EmptyNet(bitId)

\* nets.set(bitId, net) on the graph: a new key goes last in iteration order
SetNet(g, bitId, net) ==
  [g EXCEPT !.nets = (bitId :> net) @@ @,
            !.order = IF bitId \in DOMAIN g.nets THEN @ ELSE Append(@, bitId)]

normalizeBit(bit, ctr) ==
  IF bit.lit = "n" THEN [id |-> NetId("bit", "", bit.n), constant |-> "none", counter |-> ctr]
  ELSE IF bit.lit = "0" THEN
    [id |-> NetId(CONST_ZERO_ID, "", ctr.zero), constant |-> "0",
     counter |-> [ctr EXCEPT !.zero = @ + 1]]
  ELSE IF bit.lit = "1" THEN
    [id |-> NetId(CONST_ONE_ID, "", ctr.one), constant |-> "1",
     counter |-> [ctr EXCEPT !.one = @ + 1]]
  ELSE \* "x" and "z" are treated as 0
    [id |-> NetId(CONST_ZERO_ID, "", ctr.zero), constant |-> "0",
     counter |-> [ctr EXCEPT !.zero = @ + 1]]

\* normalizeBit against the graph's counter: the bit info, and the graph after
Norm(g, bit) == normalizeBit(bit, g.counter)
Bump(g, bit) == IF g.err = "none" THEN [g EXCEPT !.counter = Norm(g, bit).counter] ELSE g

registerSource_overwrite(g, bitId, ref) ==
  IF g.err # "none" THEN g
  ELSE SetNet(g, bitId, [GetNet(g.nets, bitId) EXCEPT !.source = ref])

registerSource(g, bitId, ref) ==
  IF g.err # "none" THEN g
  ELSE LET net == GetNet(g.nets, bitId) IN
    IF net.source # NoRef THEN Throw(g, "already has a driver")
    ELSE SetNet(g, bitId, [net EXCEPT !.source = ref])

registerSink(g, bitId, ref) ==
  IF g.err # "none" THEN g
  ELSE LET net == GetNet(g.nets, bitId) IN
    SetNet(g, bitId, [net EXCEPT !.sinks = Append(@, ref)])

\* metadata: label "" and setting1/customId -1 stand for "undefined"
instantiate(template, id) ==
  [id |-> id, template |-> template, connections |-> <<>>, label |-> "",
   setting1 |-> -1, customId |-> -1]

\* components.push(instance)
Push(g, inst) == IF g.err # "none" THEN g ELSE [g EXCEPT !.components = Append(@, inst)]

\* index of the first component with this id, 0 when there is none
\* (components.find(c => c.id === id))
FindIndex(cs, id) ==
  IF \E i \in 1..Len(cs) : cs[i].id = id
  THEN CHOOSE i \in 1..Len(cs) : cs[i].id = id /\ \A j \in 1..(i-1) : cs[j].id # id
  ELSE 0

HasComponent(cs, id) == \E i \in 1..Len(cs) : cs[i].id = id

\* instance.connections[port] = netId, on the instance already pushed
Connect(g, id, port, netId) ==
  IF g.err # "none" THEN g
  ELSE LET i == FindIndex(g.components, id) IN
    [g EXCEPT !.components[i].connections = (port :> netId) @@ @]

ConstDriverId(destinationId, portName) ==
  [destinationId EXCEPT !.port = portName, !.sfx = "const"]

ensureDriverIfConstant(g, bitInfo, destinationId, portName) ==
  IF g.err # "none" \/ bitInfo.constant = "none" THEN g
  ELSE IF GetNet(g.nets, bitInfo.id).source # NoRef THEN g
  ELSE LET constId == ConstDriverId(destinationId, portName)
           constTemplate == IF bitInfo.constant = "0" THEN "CONST_0" ELSE "CONST_1"
           g1 == Push(g, instantiate(constTemplate, constId))
           g2 == Connect(g1, constId, "out", bitInfo.id)
       IN registerSource(g2, bitInfo.id, PortRef(constId, "out"))

----------------------------------------------------------------------------
(* Cell lowering (buildNetlistFromYosys, adapter.ts) *)

\* CELL_LIBRARY: the cell types that reach the generic lowering; template is
\* the 1-bit template, or "INTERNAL_MUX"
CELL_LIBRARY ==
  [t \in {"$and", "$_AND_", "$or", "$_OR_", "$xor", "$_XOR_", "$xnor", "$_XNOR_",
          "$not", "$_NOT_", "$mux", "$_MUX_"} |->
    [template |-> CASE t \in {"$and", "$_AND_"} -> "AND_1"
                    [] t \in {"$or", "$_OR_"} -> "OR_1"
                    [] t \in {"$xor", "$_XOR_"} -> "XOR_1"
                    [] t \in {"$xnor", "$_XNOR_"} -> "XNOR_1"
                    [] t \in {"$not", "$_NOT_"} -> "NOT_1"
                    [] OTHER -> "INTERNAL_MUX",
     inputPorts |-> CASE t \in {"$not", "$_NOT_"} -> <<"A">>
                      [] t \in {"$mux", "$_MUX_"} -> <<"A", "B", "S">>
                      [] OTHER -> <<"A", "B">>,
     outputPort |-> "Y"]]

\* the module-name -> id map convertVerilogToSave hands to the adapter
customComponentMapping == [sub |-> 77]

\* ensureArray: the connection must exist (and have the given width when one
\* is given; size 0 stands for "no size argument")
ensureArrayFails(cell, name, size) ==
  \/ name \notin DOMAIN cell.connections
  \/ size # 0 /\ Len(cell.connections[name]) # size

\* resolveSize; 0 stands for the thrown "Unsupported width"
resolveSize(width) ==
  IF width = 1 THEN 1
  ELSE IF width <= 8 THEN 8
  ELSE IF width <= 16 THEN 16
  ELSE IF width <= 32 THEN 32
  ELSE IF width <= 64 THEN 64
  ELSE 0

\* parseParamInt on a cell parameter: an absent parameter reads as 0
parseParamInt(cell, name) ==
  IF name \in DOMAIN cell.parameters THEN cell.parameters[name] ELSE 0

\* one iteration of "for (const p of binding.inputPorts)" of the 1-bit gate path
GateInput(g, cell, instanceId, p) ==
  IF g.err # "none" THEN g
  ELSE IF ensureArrayFails(cell, p, 0) THEN Throw(g, "Expected connection")
  ELSE LET bit == cell.connections[p][1]
           b == Norm(g, bit)
           g1 == Connect(Bump(g, bit), instanceId, p, b.id)
           g2 == registerSink(g1, b.id, PortRef(instanceId, p))
       IN ensureDriverIfConstant(g2, b, instanceId, p)

RECURSIVE GateInputs(_, _, _, _, _)
GateInputs(g, cell, instanceId, inputPorts, k) ==
  IF k > Len(inputPorts) THEN g
  ELSE GateInputs(GateInput(g, cell, instanceId, inputPorts[k]), cell, instanceId,
                  inputPorts, k + 1)

\* "Standard Gates", size === 1
LowerGate1(g, cellName, cell, binding) ==
  LET instanceId == CompId(cellName, ":0")
      g0 == Push(g, instantiate(binding.template, instanceId))
      g1 == GateInputs(g0, cell, instanceId, binding.inputPorts, 1)
  IN IF g1.err # "none" THEN g1
     ELSE IF ensureArrayFails(cell, binding.outputPort, 0) THEN Throw(g1, "Expected connection")
     ELSE LET bit == cell.connections[binding.outputPort][1]
              outB == Norm(g1, bit)
              g2 == Connect(Bump(g1, bit), instanceId, binding.outputPort, outB.id)
          IN registerSource(g2, outB.id, PortRef(instanceId, binding.outputPort))

\* "Mux Special Handling", outputWidth === 1: Y = (A & !S) | (B & S)
LowerMux1(g, cellName, cell) ==
  IF \E p \in {"A", "B", "S", "Y"} : ensureArrayFails(cell, p, 1)
  THEN Throw(g, "Expected connection")
  ELSE
  LET bA == cell.connections["A"][1]
      bB == cell.connections["B"][1]
      bS == cell.connections["S"][1]
      bY == cell.connections["Y"][1]
      A == Norm(g, bA)
      gA == Bump(g, bA)
      B == Norm(gA, bB)
      gB == Bump(gA, bB)
      S == Norm(gB, bS)
      gS == Bump(gB, bS)
      Y == Norm(gS, bY)
      gY == Bump(gS, bY)
      cellId == CompId(cellName, "")
      g1 == ensureDriverIfConstant(gY, A, cellId, "A")
      g2 == ensureDriverIfConstant(g1, B, cellId, "B")
      g3 == ensureDriverIfConstant(g2, S, cellId, "S")
      nS_wire == NetId("$mux_nS_", cellName, 0)
      notId == CompId(cellName, "_not")
      \* ensureNotS(): the NOT gate gets no connections entries
      withNotS(h) ==
        registerSource(registerSink(Push(h, instantiate("NOT_1", notId)),
                                    S.id, PortRef(notId, "A")),
                       nS_wire, PortRef(notId, "Y"))
      \* Term 1: A & !S
      and1Id == CompId(cellName, "_and1")
      t1new == NetId("$mux_t1_", cellName, 0)
      term1_wire == IF A.constant = "0" THEN A.id
                    ELSE IF A.constant = "1" THEN nS_wire
                    ELSE t1new
      g4 == IF A.constant = "0" THEN g3
            ELSE IF A.constant = "1" THEN withNotS(g3)
            ELSE LET h1 == Push(withNotS(g3), instantiate("AND_1", and1Id))
                     h2 == registerSink(h1, A.id, PortRef(and1Id, "A"))
                     h3 == registerSink(h2, nS_wire, PortRef(and1Id, "B"))
                     h4 == Connect(h3, and1Id, "Y", t1new)
                 IN registerSource(h4, t1new, PortRef(and1Id, "Y"))
      \* Term 2: B & S
      and2Id == CompId(cellName, "_and2")
      t2new == NetId("$mux_t2_", cellName, 0)
      term2_wire == IF B.constant = "0" THEN B.id
                    ELSE IF B.constant = "1" THEN S.id
                    ELSE t2new
      g5 == IF B.constant # "none" THEN g4
            ELSE LET h1 == Push(g4, instantiate("AND_1", and2Id))
                     h2 == registerSink(h1, B.id, PortRef(and2Id, "A"))
                     h3 == registerSink(h2, S.id, PortRef(and2Id, "B"))
                     h4 == Connect(h3, and2Id, "Y", t2new)
                 IN registerSource(h4, t2new, PortRef(and2Id, "Y"))
      \* Result: Term1 | Term2
      orId == CompId(cellName, "_or")
      g6 == Push(g5, instantiate("OR_1", orId))
      g7 == registerSink(g6, term1_wire, PortRef(orId, "A"))
      g8 == registerSink(g7, term2_wire, PortRef(orId, "B"))
  IN registerSource(g8, Y.id, PortRef(orId, "Y"))

\* unpackBits with targetSize === 1 and one target bit: forward the bus's
\* source to the target bit
unpackBits1(g, busId, targetBit) ==
  IF g.err # "none" THEN g
  ELSE LET source == GetNet(g.nets, busId).source IN
    IF source = NoRef \/ targetBit.constant # "none" THEN g
    ELSE registerSource(g, targetBit.id, source)

\* $dff with WIDTH 1
LowerDff1(g, cellName, cell) ==
  IF ensureArrayFails(cell, "CLK", 1) THEN Throw(g, "Expected connection")
  ELSE
  LET clkPol == parseParamInt(cell, "CLK_POLARITY")
      bC == cell.connections["CLK"][1]
      clk0 == Norm(g, bC).id
      g0 == Bump(g, bC)
      notId == CompId(cellName, "_clk_not")
      clkInv == NetId("_clk_inv", cellName, 0)
      g1 == IF clkPol # 0 THEN g0
            ELSE LET h1 == Connect(Push(g0, instantiate("NOT_1", notId)), notId, "A", clk0)
                     h2 == registerSink(h1, clk0, PortRef(notId, "A"))
                     h3 == Connect(h2, notId, "Y", clkInv)
                 IN registerSource(h3, clkInv, PortRef(notId, "Y"))
      clkWire == IF clkPol = 0 THEN clkInv ELSE clk0
  IN IF ensureArrayFails(cell, "D", 0) THEN Throw(g1, "Expected connection")
     ELSE
     LET bD == cell.connections["D"][1]
         dPacked == Norm(g1, bD).id   \* packBits(.., 1, ..) returns bits[0].id
         g2 == Bump(g1, bD)
         regId == CompId(cellName, "_reg")
         g3 == Connect(Push(g2, instantiate("REG_1", regId)), regId, "value", dPacked)
         g4 == registerSink(g3, dPacked, PortRef(regId, "value"))
         g5 == registerSink(Connect(g4, regId, "save", clkWire), clkWire, PortRef(regId, "save"))
         regOut == NetId("_reg_out", cellName, 0)
         g6 == registerSource(Connect(g5, regId, "out", regOut), regOut, PortRef(regId, "out"))
     IN IF ensureArrayFails(cell, "Q", 0) THEN Throw(g6, "Expected connection")
        ELSE LET bQ == cell.connections["Q"][1]
             IN unpackBits1(Bump(g6, bQ), regOut, Norm(g6, bQ))

\* the body of the loop over the module's input ports, for a 1-bit port
LowerInputPort(g, portName, bit) ==
  LET componentId == CompId(portName, "in:")
      bitInfo == Norm(g, bit)
      inst == [instantiate("INPUT_1", componentId) EXCEPT !.label = portName]
      g1 == Connect(Push(Bump(g, bit), inst), componentId, "out", bitInfo.id)
  IN registerSource(g1, bitInfo.id, PortRef(componentId, "out"))

\* the body of the loop over the module's output ports, for a 1-bit port
LowerOutputPort(g, portName, bit) ==
  LET componentId == CompId(portName, "out:")
      bitInfo == Norm(g, bit)
      inst == [instantiate("OUTPUT_1", componentId) EXCEPT !.label = portName]
      g1 == Connect(Push(Bump(g, bit), inst), componentId, "in", bitInfo.id)
  IN registerSink(g1, bitInfo.id, PortRef(componentId, "in"))

\* the body of "for (const [cellName, cell] of Object.entries(module.cells))"
LowerCell(g, cellName, cell) ==
  IF cell.type = "$dff" THEN LowerDff1(g, cellName, cell)
  ELSE IF cell.type \notin DOMAIN CELL_LIBRARY THEN Throw(g, "Unsupported cell type")
  ELSE LET binding == CELL_LIBRARY[cell.type] IN
    IF binding.template = "INTERNAL_MUX" THEN LowerMux1(g, cellName, cell)
    ELSE LowerGate1(g, cellName, cell, binding)

----------------------------------------------------------------------------
(* Component library (componentLibrary.ts): template id -> ports, bounds *)

Port(id, direction, x, y) == [id |-> id, direction |-> direction, x |-> x, y |-> y]

\* `in${i}` and `out${i}`
InName(i) == <<"in0", "in1", "in2", "in3", "in4", "in5", "in6", "in7">>[i + 1]
OutName(i) == <<"out0", "out1", "out2", "out3", "out4", "out5", "out6", "out7">>[i + 1]

\* portId.startsWith("out")
StartsWithOut(p) == p = "out" \/ \E i \in 0..7 : p = OutName(i)

Gate2Ports(out) == <<Port("A", "in", -1, 1), Port("B", "in", -1, -1), Port(out, "out", 2, 0)>>

\* makePorts: the inputs on the left, centred, and one output
makePorts(inputs, output, outputX, outputY) ==
  [i \in 1..Len(inputs) |->
     Port(inputs[i], "in", -1,
          IF Len(inputs) > 1 THEN ((Len(inputs) - 1) \div 2) - (i - 1) ELSE 0)]
  \o <<Port(output, "out", outputX, outputY)>>

\* the templates registered for each of SIZES
INPUT_N == {"INPUT_8", "INPUT_16", "INPUT_32", "INPUT_64"}
OUTPUT_N == {"OUTPUT_8", "OUTPUT_16", "OUTPUT_32", "OUTPUT_64"}
CONST_N == {"CONST_8", "CONST_16", "CONST_32", "CONST_64"}
WIDE_MAKERS == {"MAKER_16", "MAKER_32", "MAKER_64"}
WIDE_SPLITTERS == {"SPLITTER_16", "SPLITTER_32", "SPLITTER_64"}
GATE2_N ==
  {"AND_8", "AND_16", "AND_32", "AND_64", "OR_8", "OR_16", "OR_32", "OR_64",
   "XOR_8", "XOR_16", "XOR_32", "XOR_64", "XNOR_8", "XNOR_16", "XNOR_32", "XNOR_64"}
NOT_N == {"NOT_8", "NOT_16", "NOT_32", "NOT_64"}
MUX_N == {"MUX_8", "MUX_16", "MUX_32", "MUX_64"}
COMPARE_N ==
  {"EQUAL_8", "EQUAL_16", "EQUAL_32", "EQUAL_64", "LESSU_8", "LESSU_16", "LESSU_32",
   "LESSU_64", "LESSI_8", "LESSI_16", "LESSI_32", "LESSI_64"}
REG_N == {"REG_8", "REG_16", "REG_32", "REG_64"}

\* size / 8 of a wide maker or splitter
ChunksOf(t) ==
  CASE t \in {"MAKER_16", "SPLITTER_16"} -> 2
    [] t \in {"MAKER_32", "SPLITTER_32"} -> 4
    [] t \in {"MAKER_64", "SPLITTER_64"} -> 8

\* the y of chunk pin i of a wide maker or splitter
ChunkY(t, i) == i - ((ChunksOf(t) - 1) \div 2) + (IF ChunksOf(t) = 2 THEN -1 ELSE 0)

\* x of the pin of a register, input, output or constant: 1 for 8 bits, else 2
WideX(t) == IF t \in {"INPUT_8", "OUTPUT_8", "CONST_8", "REG_8"} THEN 1 ELSE 2

TemplatePorts(t) ==
  CASE t \in {"INPUT_1", "CONST_0", "CONST_1"} -> <<Port("out", "out", 1, 0)>>
    [] t = "OUTPUT_1" -> <<Port("in", "in", -1, 0)>>
    [] t = "CUSTOM_GENERIC" -> <<Port("in", "in", -1, 0), Port("out", "out", 1, 0)>>
    [] t = "NOT_1" -> <<Port("A", "in", -1, 0), Port("Y", "out", 1, 0)>>
    [] t \in {"AND_1", "OR_1", "XOR_1", "XNOR_1"} -> Gate2Ports("Y")
    [] t = "REG_1" -> <<Port("save", "in", -1, -1), Port("value", "in", -1, 1),
                        Port("out", "out", 1, 0)>>
    [] t = "MAKER_8" -> [i \in 1..8 |-> Port(InName(i - 1), "in", -1, i - 1 - 3)]
                          \o <<Port("out", "out", 1, 0)>>
    [] t = "SPLITTER_8" -> <<Port("in", "in", -1, 0)>>
                          \o [i \in 1..8 |-> Port(OutName(i - 1), "out", 1, i - 1 - 3)]
    [] t \in WIDE_MAKERS -> [i \in 1..ChunksOf(t) |-> Port(InName(i - 1), "in", -1, ChunkY(t, i - 1))]
                            \o <<Port("out", "out", 1, 0)>>
    [] t \in WIDE_SPLITTERS -> <<Port("in", "in", -1, 0)>>
                            \o [i \in 1..ChunksOf(t) |->
                                  Port(OutName(i - 1), "out", 1, ChunkY(t, i - 1))]
    [] t \in INPUT_N \cup CONST_N -> <<Port("out", "out", WideX(t), 0)>>
    [] t \in OUTPUT_N -> <<Port("in", "in", -WideX(t), 0)>>
    [] t \in GATE2_N -> makePorts(<<"A", "B">>, "Y", 1, 0)
    [] t \in NOT_N -> makePorts(<<"A">>, "Y", 1, 0)
    [] t \in MUX_N -> makePorts(<<"A", "B", "S">>, "Y", 1, 0)
    [] t \in COMPARE_N -> makePorts(<<"A", "B">>, "out", 1, 0)
    [] t = "EQUAL_1" -> Gate2Ports("out")
    [] t \in REG_N -> <<Port("load", "in", -WideX(t), -1), Port("save", "in", -WideX(t), 0),
                        Port("value", "in", -WideX(t), 1), Port("out", "out", WideX(t), 0)>>

SeqMin(f, ps) == CHOOSE v \in {f[i] : i \in 1..Len(ps)} : \A i \in 1..Len(ps) : v <= f[i]
SeqMax(f, ps) == CHOOSE v \in {f[i] : i \in 1..Len(ps)} : \A i \in 1..Len(ps) : v >= f[i]
Min2(a, b) == IF a < b THEN a ELSE b
Max2(a, b) == IF a > b THEN a ELSE b

\* createBounds: the hull of the port positions, widened by the extra bounds
createBounds(ps, extra) ==
  [minX |-> Min2(SeqMin([i \in 1..Len(ps) |-> ps[i].x], ps), extra.minX),
   maxX |-> Max2(SeqMax([i \in 1..Len(ps) |-> ps[i].x], ps), extra.maxX),
   minY |-> Min2(SeqMin([i \in 1..Len(ps) |-> ps[i].y], ps), extra.minY),
   maxY |-> Max2(SeqMax([i \in 1..Len(ps) |-> ps[i].y], ps), extra.maxY)]

\* the extraBounds argument of the template; a template that gives none gets
\* the position of its first port, which changes no hull
ExtraBounds(t) ==
  CASE t \in {"INPUT_1", "CONST_0", "CONST_1"} -> [minX |-> 0, maxX |-> 2, minY |-> 0, maxY |-> 0]
    [] t = "OUTPUT_1" -> [minX |-> -2, maxX |-> 0, minY |-> 0, maxY |-> 0]
    [] t = "CUSTOM_GENERIC" -> [minX |-> -2, maxX |-> 2, minY |-> -1, maxY |-> 1]
    [] t \in CONST_N -> [minX |-> 0, maxX |-> WideX(t), minY |-> 0, maxY |-> 0]
    [] OTHER -> [minX |-> TemplatePorts(t)[1].x, maxX |-> TemplatePorts(t)[1].x,
                 minY |-> TemplatePorts(t)[1].y, maxY |-> TemplatePorts(t)[1].y]

\* template.bounds
TemplateBounds(t) == createBounds(TemplatePorts(t), ExtraBounds(t))

IsMaker(t) == t \in {"MAKER_8", "MAKER_16", "MAKER_32", "MAKER_64"}
IsSplitter(t) == t \in {"SPLITTER_8", "SPLITTER_16", "SPLITTER_32", "SPLITTER_64"}

InputPortsOf(t) == SelectSeq(TemplatePorts(t), LAMBDA p : p.direction = "in")

----------------------------------------------------------------------------
(* Redundant maker/splitter removal (adapter.ts) *)

\* delete connections[p] for p in ps
DelConn(conn, ps) == [p \in (DOMAIN conn) \ ps |-> conn[p]]

\* the splitter all of whose outputs out0.. feed this maker's in0.. in order,
\* or NoComp
RedundantSplitter(cs, ns, comp) ==
  LET n == Len(InputPortsOf(comp.template))
      src(i) == ns[comp.connections[InName(i)]].source
      ok(i) == /\ InName(i) \in DOMAIN comp.connections
               /\ comp.connections[InName(i)] \in DOMAIN ns
               /\ src(i) # NoRef
               /\ HasComponent(cs, src(i).componentId)
               /\ IsSplitter(cs[FindIndex(cs, src(i).componentId)].template)
               /\ src(i).portId = OutName(i)
  IN IF n > 0 /\ (\A i \in 0..(n-1) : ok(i))
        /\ (\A i \in 0..(n-1) : src(i).componentId = src(0).componentId)
     THEN src(0).componentId ELSE NoComp

\* one iteration of optimizeMakerSplitterPairs' loop, on components[k]
MergePair(g, k) ==
  LET cs == g.components
      ns == g.nets
      comp == cs[k]
      sid == IF IsMaker(comp.template) THEN RedundantSplitter(cs, ns, comp) ELSE NoComp
  IN IF sid = NoComp THEN g
     ELSE
     LET splitter == cs[FindIndex(cs, sid)] IN
     IF ~("in" \in DOMAIN splitter.connections /\ "out" \in DOMAIN comp.connections) THEN g
     ELSE
     LET splitterInNetId == splitter.connections["in"]
         makerOutNetId == comp.connections["out"]
     IN IF ~(splitterInNetId \in DOMAIN ns /\ makerOutNetId \in DOMAIN ns
             /\ splitterInNetId # makerOutNetId) THEN g
        ELSE
        LET moved == ns[makerOutNetId].sinks
            rewired(i) == {moved[j].portId : j \in {j \in 1..Len(moved) :
                              moved[j].componentId = cs[i].id /\ FindIndex(cs, cs[i].id) = i}}
            cs1 == [i \in 1..Len(cs) |->
                     [cs[i] EXCEPT !.connections =
                        [p \in (DOMAIN @) \cup rewired(i) |->
                           IF p \in rewired(i) THEN splitterInNetId ELSE @[p]]]]
            cs2 == [cs1 EXCEPT ![k].connections = DelConn(@, {"out"})]
            ns1 == [ns EXCEPT ![splitterInNetId].sinks = @ \o moved,
                              ![makerOutNetId].sinks = <<>>,
                              ![makerOutNetId].source = NoRef]
        IN [g EXCEPT !.components = cs2, !.nets = ns1]

RECURSIVE optimizeMakerSplitterPairsFrom(_, _)
optimizeMakerSplitterPairsFrom(g, k) ==
  IF k > Len(g.components) THEN g
  ELSE optimizeMakerSplitterPairsFrom(MergePair(g, k), k + 1)

optimizeMakerSplitterPairs(g) == optimizeMakerSplitterPairsFrom(g, 1)

\* is any OUT port of the component connected to a net with sinks
OutUsed(ns, comp) ==
  \E p \in DOMAIN comp.connections :
    /\ StartsWithOut(p)
    /\ comp.connections[p] \in DOMAIN ns
    /\ Len(ns[comp.connections[p]].sinks) > 0

\* a detach that leaves the component in the sink lists of its input nets
Detach_keepsSinks(ns, comp) ==
  LET outs == {comp.connections[p] : p \in {q \in DOMAIN comp.connections : StartsWithOut(q)}}
  IN [n \in DOMAIN ns |->
        IF n \in outs /\ ns[n].source.componentId = comp.id
        THEN [ns[n] EXCEPT !.source = NoRef]
        ELSE ns[n]]

\* detach an unused splitter/maker from its input nets and its output nets
Detach(ns, comp) ==
  LET ins == {comp.connections[p] : p \in {q \in DOMAIN comp.connections :
                \E i \in 1..Len(TemplatePorts(comp.template)) :
                   /\ TemplatePorts(comp.template)[i].id = q
                   /\ TemplatePorts(comp.template)[i].direction = "in"}}
      outs == {comp.connections[p] : p \in {q \in DOMAIN comp.connections : StartsWithOut(q)}}
      ns1 == [n \in DOMAIN ns |->
                IF n \in ins
                THEN [ns[n] EXCEPT !.sinks = SelectSeq(@, LAMBDA s : s.componentId # comp.id)]
                ELSE ns[n]]
  IN [n \in DOMAIN ns1 |->
        IF n \in outs /\ ns1[n].source.componentId = comp.id
        THEN [ns1[n] EXCEPT !.source = NoRef]
        ELSE ns1[n]]

\* one pass of cleanupRedundantComponents' while loop, from components[k] on;
\* st = [nets, toRemove]
RECURSIVE CleanupPass(_, _, _)
CleanupPass(cs, k, st) ==
  IF k > Len(cs) THEN st
  ELSE LET comp == cs[k] IN
    IF (IsSplitter(comp.template) \/ IsMaker(comp.template)) /\ ~OutUsed(st.nets, comp)
    THEN CleanupPass(cs, k + 1, [nets |-> Detach(st.nets, comp),
                                 toRemove |-> st.toRemove \cup {comp.id}])
    ELSE CleanupPass(cs, k + 1, st)

RECURSIVE cleanupRedundantComponents(_)
cleanupRedundantComponents(g) ==
  LET st == CleanupPass(g.components, 1, [nets |-> g.nets, toRemove |-> {}])
  IN IF st.toRemove = {} THEN g
     ELSE cleanupRedundantComponents(
            [g EXCEPT !.components = SelectSeq(@, LAMBDA c : c.id \notin st.toRemove),
                      !.nets = st.nets])

----------------------------------------------------------------------------
(* Constant folding (optimizeNetlist, verilogToTc.ts) *)

CONST_MULTI_IDS == {"CONST_8", "CONST_16", "CONST_32", "CONST_64"}

IsZeroConstant(c) ==
  \/ c.template = "CONST_0"
  \/ c.template \in CONST_MULTI_IDS /\ c.setting1 = 0

\* step 1: the zero constants and their output nets
ZeroComponents(cs) == {cs[i].id : i \in {i \in 1..Len(cs) : IsZeroConstant(cs[i])}}
ZeroNets(cs) ==
  {cs[i].connections["out"] : i \in {i \in 1..Len(cs) :
      IsZeroConstant(cs[i]) /\ "out" \in DOMAIN cs[i].connections}}

AndIsFolded(c, netsToRemove) ==
  LET hasA == "A" \in DOMAIN c.connections
      hasB == "B" \in DOMAIN c.connections
      isInputZero == \/ hasA /\ c.connections["A"] \in netsToRemove
                     \/ hasB /\ c.connections["B"] \in netsToRemove
  IN isInputZero \/ ~hasA \/ ~hasB

\* step 2: one walk over the components in order; st = [comps, nets] to remove
RECURSIVE FoldAnds(_, _, _)
FoldAnds(cs, k, st) ==
  IF k > Len(cs) THEN st
  ELSE LET c == cs[k] IN
    IF c.template = "AND_1" /\ AndIsFolded(c, st.nets)
    THEN FoldAnds(cs, k + 1,
           [comps |-> st.comps \cup {c.id},
            nets |-> st.nets \cup (IF "Y" \in DOMAIN c.connections
                                   THEN {c.connections["Y"]} ELSE {})])
    ELSE FoldAnds(cs, k + 1, st)

optimizeNetlist(cs, ns, ord) ==
  LET st == FoldAnds(cs, 1, [comps |-> ZeroComponents(cs), nets |-> ZeroNets(cs)])
      componentsToRemove == st.comps
      netsToRemove == st.nets
      \* componentMap.get(id): the last component registered under the id
      mapped(id) == cs[CHOOSE i \in 1..Len(cs) :
                         cs[i].id = id /\ \A j \in (i+1)..Len(cs) : cs[j].id # id]
      \* the nets a removed component is connected to
      touched(id) == {mapped(id).connections[p] : p \in DOMAIN mapped(id).connections}
      \* 1. disconnect removed components from the nets in their connections
      ns1 == [n \in DOMAIN ns |->
               LET gone == {id \in componentsToRemove : n \in touched(id)} IN
               [ns[n] EXCEPT !.sinks = SelectSeq(@, LAMBDA s : s.componentId \notin gone),
                             !.source = IF @.componentId \in gone THEN NoRef ELSE @]]
      \* 2. remove components
      cs1 == SelectSeq(cs, LAMBDA c : c.id \notin componentsToRemove)
      \* 3. remove the nets, and the connections entry of each remaining sink
      dropped(c) == {p \in DOMAIN c.connections :
                       \E n \in netsToRemove \cap DOMAIN ns1 :
                         \E j \in 1..Len(ns1[n].sinks) :
                           /\ ns1[n].sinks[j].componentId = c.id
                           /\ ns1[n].sinks[j].portId = p}
      cs2 == [i \in 1..Len(cs1) |->
                IF mapped(cs1[i].id) = cs1[i]
                THEN [cs1[i] EXCEPT !.connections = DelConn(@, dropped(cs1[i]))]
                ELSE cs1[i]]
      ns2 == [n \in (DOMAIN ns1) \ netsToRemove |-> ns1[n]]
  IN IF componentsToRemove = {} THEN [components |-> cs, nets |-> ns, order |-> ord]
     ELSE [components |-> cs2, nets |-> ns2,
           order |-> SelectSeq(ord, LAMBDA n : n \notin netsToRemove)]

----------------------------------------------------------------------------
(* Layout bridge (graphBuilder.ts, elkRouter.ts) *)

Pt(x, y) == [x |-> x, y |-> y]

\* a component id as text: the pieces the adapter concatenates, in order
\* (`in:${portName}`, `${cellName}:0`, `${destinationId}:${portName}:const`)
IdStr(cid) ==
  (IF cid.role \in {"in:", "out:"} THEN <<cid.role, cid.base>>
   ELSE IF cid.role = "" THEN <<cid.base>>
   ELSE <<cid.base, cid.role>>)
  \o (IF cid.sfx = "" THEN <<>> ELSE <<":", cid.port, ":", cid.sfx>>)

\* `${source.componentId}::${source.portId}=>${target.componentId}::${target.portId}`
buildEdgeId(source, target) ==
  IdStr(source.componentId) \o <<"::", source.portId, "=>">>
    \o IdStr(target.componentId) \o <<"::", target.portId>>

\* the first position >= from at which the piece occurs in the text, or 0
FirstIndex(text, piece, from) ==
  IF \E i \in from..Len(text) : text[i] = piece
  THEN CHOOSE i \in from..Len(text) : text[i] = piece /\ \A j \in from..(i-1) : text[j] # piece
  ELSE 0

\* edgeId.match(/^(.*?)::(.*?)=>(.*?)::(.*?)$/): each group is the shortest
\* text before the next separator
decodeEdgeId(edgeId) ==
  LET i == FirstIndex(edgeId, "::", 1)
      j == IF i = 0 THEN 0 ELSE FirstIndex(edgeId, "=>", i + 1)
      k == IF j = 0 THEN 0 ELSE FirstIndex(edgeId, "::", j + 1)
  IN IF k = 0
     THEN [ok |-> FALSE, sourceComponent |-> <<>>, sourcePort |-> <<>>,
           targetComponent |-> <<>>, targetPort |-> <<>>]
     ELSE [ok |-> TRUE,
           sourceComponent |-> SubSeq(edgeId, 1, i - 1),
           sourcePort |-> SubSeq(edgeId, i + 1, j - 1),
           targetComponent |-> SubSeq(edgeId, j + 1, k - 1),
           targetPort |-> SubSeq(edgeId, k + 1, Len(edgeId))]

IsInputKind(t) == t \in {"INPUT_1", "INPUT_8", "INPUT_16", "INPUT_32", "INPUT_64"}
IsOutputKind(t) == t \in {"OUTPUT_1", "OUTPUT_8", "OUTPUT_16", "OUTPUT_32", "OUTPUT_64"}

GRID_SIZE == 1

\* buildNode: the node's size is the template's bounds, an I/O node is 2 taller
\* above and below
buildNode(component) ==
  LET b == TemplateBounds(component.template)
      io == IsInputKind(component.template) \/ IsOutputKind(component.template)
  IN [id |-> component.id,
      width |-> (b.maxX - b.minX + 1) * GRID_SIZE,
      height |-> (b.maxY - b.minY + 1) * GRID_SIZE + (IF io THEN 2 * 2 ELSE 0)]

\* the edges of the nets order[k..]: one per sink of each net that has a source
RECURSIVE NetEdgesFrom(_, _, _)
NetEdgesFrom(ns, order, k) ==
  IF k > Len(order) THEN <<>>
  ELSE LET net == ns[order[k]] IN
    (IF net.source = NoRef THEN <<>>
     ELSE [j \in 1..Len(net.sinks) |->
             [id |-> buildEdgeId(net.source, net.sinks[j]),
              source |-> net.source, target |-> net.sinks[j]]])
    \o NetEdgesFrom(ns, order, k + 1)

\* buildLayoutGraph without the edge of the last sink
buildLayoutGraph_dropsLastEdge(cs, ns, order) ==
  [nodes |-> [i \in 1..Len(cs) |-> buildNode(cs[i])],
   edges |-> SubSeq(NetEdgesFrom(ns, order, 1), 1, Len(NetEdgesFrom(ns, order, 1)) - 1)]

buildLayoutGraph(cs, ns, order) ==
  [nodes |-> [i \in 1..Len(cs) |-> buildNode(cs[i])],
   edges |-> NetEdgesFrom(ns, order, 1)]

\* Math.round of a number given in halves: h stands for h/2
RoundHalf(h) == (h + 1) \div 2

\* snapPoint with gridSize 1, on a point the layout engine returned (in halves)
snapPoint(point) == Pt(RoundHalf(point.x) * GRID_SIZE, RoundHalf(point.y) * GRID_SIZE)

isColinear(a, b, c) == (b.x - a.x) * (c.y - b.y) = (b.y - a.y) * (c.x - b.x)

\* compactPolyline's loop from index i on; result is what was kept so far
RECURSIVE CompactFrom(_, _, _)
CompactFrom(points, i, result) ==
  IF i > Len(points) - 1 THEN Append(result, points[Len(points)])
  ELSE IF isColinear(result[Len(result)], points[i], points[i + 1])
       THEN CompactFrom(points, i + 1, result)
       ELSE CompactFrom(points, i + 1, Append(result, points[i]))

compactPolyline(points) ==
  IF Len(points) <= 2 THEN points ELSE CompactFrom(points, 2, <<points[1]>>)

\* a section is [startPoint, bendPoints, endPoint]; an absent start or end
\* point is the empty sequence, a present one a sequence of one point
RECURSIVE SectionPointsFrom(_, _)
SectionPointsFrom(sections, k) ==
  IF k > Len(sections) THEN <<>>
  ELSE LET sec == sections[k]
           all == sec.startPoint \o sec.bendPoints \o sec.endPoint
       IN [i \in 1..Len(all) |-> snapPoint(all[i])] \o SectionPointsFrom(sections, k + 1)

collectEdgePoints(sections) == compactPolyline(SectionPointsFrom(sections, 1))

\* fromElkGraph: the laid-out graph as a LayoutResult
fromElkGraph(graph) ==
  [nodes |-> [i \in 1..Len(graph.children) |->
                LET child == graph.children[i]
                    position == snapPoint(Pt(child.x, child.y))
                IN [id |-> child.id, x |-> position.x, y |-> position.y,
                    width |-> child.width, height |-> child.height]],
   edges |-> [i \in 1..Len(graph.edges) |->
                [id |-> graph.edges[i].id,
                 points |-> collectEdgePoints(graph.edges[i].sections)]]]

----------------------------------------------------------------------------
(* Wire encoding (verilogToTc.ts) *)

DIRECTIONS ==
  <<Pt(1, 0), Pt(1, 1), Pt(0, 1), Pt(-1, 1), Pt(-1, 0), Pt(-1, -1), Pt(0, -1), Pt(1, -1)>>

\* DIRECTIONS.findIndex(d => d.x === v.x && d.y === v.y): 0-based, -1 if absent
DirectionIndex(v) ==
  IF \E i \in 1..Len(DIRECTIONS) : DIRECTIONS[i] = v
  THEN (CHOOSE i \in 1..Len(DIRECTIONS) : DIRECTIONS[i] = v) - 1
  ELSE -1

Sign(v) == IF v > 0 THEN 1 ELSE IF v < 0 THEN -1 ELSE 0
Abs(v) == IF v < 0 THEN -v ELSE v

\* the unit steps densify pushes for one pair of points with dx = 0 or dy = 0
Steps(current, next) ==
  LET dx == next.x - current.x
      dy == next.y - current.y
      steps == Max2(Abs(dx), Abs(dy))
  IN [k \in 1..steps |-> Pt(current.x + Sign(dx) * k, current.y + Sign(dy) * k)]

\* one iteration of densify's loop: a diagonal pair goes through the corner
\* (next.x, current.y)
DensifyPair(current, next) ==
  IF next.x - current.x # 0 /\ next.y - current.y # 0
  THEN LET mid == Pt(next.x, current.y) IN Steps(current, mid) \o Steps(mid, next)
  ELSE Steps(current, next)

RECURSIVE DensifyFrom(_, _)
DensifyFrom(points, i) ==
  IF i >= Len(points) THEN <<>>
  ELSE DensifyPair(points[i], points[i + 1]) \o DensifyFrom(points, i + 1)

densify(points) ==
  IF Len(points) < 2 THEN points ELSE <<points[1]>> \o DensifyFrom(points, 1)

\* a | b on non-negative integers
RECURSIVE BitOr(_, _)
BitOr(a, b) ==
  IF a = 0 THEN b
  ELSE IF b = 0 THEN a
  ELSE Max2(a % 2, b % 2) + 2 * BitOr(a \div 2, b \div 2)

\* the longest run one body byte holds (0b0001_1111)
MAX_RUN == 31

\* path[k] - path[k-1] for the 0-based index k of the source
Vec(path, k) == Pt(path[k + 1].x - path[k].x, path[k + 1].y - path[k].y)

\* the inner while loop of encodeWire; offset is 0-based
RECURSIVE RunLength(_, _, _, _)
RunLength(path, offset, length, maxLength) ==
  IF length < maxLength /\ Vec(path, offset + length + 1) = Vec(path, offset + 1)
  THEN RunLength(path, offset, length + 1, maxLength)
  ELSE length

\* encodeWire's outer loop without the cap of 31 on a run
RECURSIVE EncodeRuns_uncapped(_, _)
EncodeRuns_uncapped(path, offset) ==
  IF ~(offset < Len(path) - 1) THEN [err |-> "none", body |-> <<0>>]
  ELSE LET direction == DirectionIndex(Vec(path, offset + 1))
           length == RunLength(path, offset, 1, Len(path) - 1 - offset)
           rest == EncodeRuns_uncapped(path, offset + length)
       IN [err |-> "none", body |-> <<BitOr(direction * 32, length)>> \o rest.body]

\* encodeWire's outer while loop from offset on, and the final push(0)
RECURSIVE EncodeRuns(_, _)
EncodeRuns(path, offset) ==
  IF ~(offset < Len(path) - 1) THEN [err |-> "none", body |-> <<0>>]
  ELSE LET direction == DirectionIndex(Vec(path, offset + 1)) IN
    IF direction = -1 THEN [err |-> "Invalid wire segment direction", body |-> <<>>]
    ELSE LET maxLength == Min2(MAX_RUN, Len(path) - 1 - offset)
             length == RunLength(path, offset, 1, maxLength)
             rest == EncodeRuns(path, offset + length)
         IN IF rest.err # "none" THEN rest
            ELSE [err |-> "none", body |-> <<BitOr(direction * 32, length)>> \o rest.body]

encodeWire(points) ==
  IF Len(points) < 2
  THEN [err |-> "Wire must contain at least two points", body |-> <<>>]
  ELSE EncodeRuns(densify(points), 0)

----------------------------------------------------------------------------
(* Layout post-processing and payload (verilogToTc.ts) *)

NoLayout == [nodes |-> <<>>, edges |-> <<>>]
NoPayload == [built |-> FALSE, components |-> <<>>, wires |-> <<>>, dependencies |-> {}]
NoWire == [points |-> <<>>, encoded |-> FALSE, err |-> "none", body |-> <<>>]
NoSave == [payload |-> <<>>, built |-> FALSE, err |-> "none", saveFile |-> <<>>,
           uncompressed |-> <<>>]
NoDriver == [phase |-> "idle", usage |-> TRUE, top |-> "", source |-> <<>>,
             deps |-> <<>>, next |-> 0, started |-> <<>>, compiled |-> <<>>,
             files |-> {}, exitCode |-> -1]
NoSink == [request |-> <<>>, done |-> FALSE, err |-> "none", bytes |-> <<>>]
NoRun == [done |-> FALSE, err |-> "none", payload |-> NoPayload]
NoPack == [request |-> <<>>, bits |-> <<>>, size |-> 0, compCounter |-> 0,
           done |-> FALSE, bus |-> NoNet]

\* A LayoutResult holds numbers that snapPoint made integers; the offsets
\* added below are integers, so Math.round on them changes nothing.  The
\* per-node port placements (node.ports) are moved but never read again and
\* are left out.

\* template of netlist.components.find(c => c.id === id), "" when none
TemplateOfId(cs, id) == IF HasComponent(cs, id) THEN cs[FindIndex(cs, id)].template ELSE ""

SetMin(S) == CHOOSE v \in S : \A w \in S : v <= w
SetMax(S) == CHOOSE v \in S : \A w \in S : v >= w

\* is the text p a prefix of the text t
IsPrefix(p, t) == Len(p) <= Len(t) /\ SubSeq(t, 1, Len(p)) = p

\* does the text t contain the text p
Includes(t, p) == \E i \in 0..(Len(t) - Len(p)) : SubSeq(t, i + 1, i + Len(p)) = p

\* f[1] + ... + f[k]
RECURSIVE SumTo(_, _)
SumTo(f, k) == IF k = 0 THEN 0 ELSE SumTo(f, k - 1) + f[k]

alignIOComponents(lay, cs) ==
  LET nodes == lay.nodes
      ins == {i \in 1..Len(nodes) : IsInputKind(TemplateOfId(cs, nodes[i].id))}
      outs == {i \in 1..Len(nodes) : IsOutputKind(TemplateOfId(cs, nodes[i].id))}
  IN IF ins = {} \/ outs = {} THEN lay
     ELSE
     LET inputTargetX == SetMin({nodes[i].x : i \in ins}) - 10
         outputTargetX == SetMax({nodes[i].x + nodes[i].width : i \in outs}) + 10
         dx == [i \in 1..Len(nodes) |->
                  IF i \in ins THEN inputTargetX - nodes[i].x
                  ELSE IF i \in outs THEN outputTargetX - (nodes[i].x + nodes[i].width)
                  ELSE 0]
         \* the shift of the first point: edges whose id starts with `${node.id}::`
         startDx(e) == SumTo([i \in 1..Len(nodes) |->
                         IF i \in ins /\ IsPrefix(IdStr(nodes[i].id) \o <<"::">>, e.id)
                         THEN dx[i] ELSE 0], Len(nodes))
         \* the shift of the last point: edges whose id includes `=>${node.id}::`
         \* and whose decoded target is the node
         endDx(e) == SumTo([i \in 1..Len(nodes) |->
                       IF /\ i \in outs
                          /\ Includes(e.id, <<"=>">> \o IdStr(nodes[i].id) \o <<"::">>)
                          /\ decodeEdgeId(e.id).targetComponent = IdStr(nodes[i].id)
                       THEN dx[i] ELSE 0], Len(nodes))
         moved(e) ==
           IF Len(e.points) = 0 THEN e.points
           ELSE LET p1 == [e.points EXCEPT ![1].x = @ + startDx(e)]
                IN [p1 EXCEPT ![Len(p1)].x = @ + endDx(e)]
     IN [nodes |-> [i \in 1..Len(nodes) |-> [nodes[i] EXCEPT !.x = @ + dx[i]]],
         edges |-> [k \in 1..Len(lay.edges) |->
                      [id |-> lay.edges[k].id, points |-> moved(lay.edges[k])]]]

\* centerLayout moving the nodes and leaving the edge points where they are
centerLayout_nodesOnly(lay) ==
  LET nodes == lay.nodes
      pts == UNION {{lay.edges[k].points[j] : j \in 1..Len(lay.edges[k].points)} :
                      k \in 1..Len(lay.edges)}
      xsLo == {nodes[i].x : i \in 1..Len(nodes)} \cup {q.x : q \in pts}
      xsHi == {nodes[i].x + nodes[i].width : i \in 1..Len(nodes)} \cup {q.x : q \in pts}
      ysLo == {nodes[i].y : i \in 1..Len(nodes)} \cup {q.y : q \in pts}
      ysHi == {nodes[i].y + nodes[i].height : i \in 1..Len(nodes)} \cup {q.y : q \in pts}
  IN IF xsLo = {} THEN lay
     ELSE [nodes |-> [i \in 1..Len(nodes) |->
                      [nodes[i] EXCEPT
                         !.x = @ + RoundHalf(-(SetMin(xsLo) + SetMax(xsHi))),
                         !.y = @ + RoundHalf(-(SetMin(ysLo) + SetMax(ysHi)))]],
           edges |-> lay.edges]

centerLayout(lay) ==
  LET nodes == lay.nodes
      pts == UNION {{lay.edges[k].points[j] : j \in 1..Len(lay.edges[k].points)} :
                      k \in 1..Len(lay.edges)}
      xsLo == {nodes[i].x : i \in 1..Len(nodes)} \cup {q.x : q \in pts}
      xsHi == {nodes[i].x + nodes[i].width : i \in 1..Len(nodes)} \cup {q.x : q \in pts}
      ysLo == {nodes[i].y : i \in 1..Len(nodes)} \cup {q.y : q \in pts}
      ysHi == {nodes[i].y + nodes[i].height : i \in 1..Len(nodes)} \cup {q.y : q \in pts}
  IN IF xsLo = {} THEN lay
     ELSE
     \* Math.round(-(min + max) / 2)
     LET offsetX == RoundHalf(-(SetMin(xsLo) + SetMax(xsHi)))
         offsetY == RoundHalf(-(SetMin(ysLo) + SetMax(ysHi)))
     IN [nodes |-> [i \in 1..Len(nodes) |->
                      [nodes[i] EXCEPT !.x = @ + offsetX, !.y = @ + offsetY]],
         edges |-> [k \in 1..Len(lay.edges) |->
                      [id |-> lay.edges[k].id,
                       points |-> [j \in 1..Len(lay.edges[k].points) |->
                                     Pt(lay.edges[k].points[j].x + offsetX,
                                        lay.edges[k].points[j].y + offsetY)]]]]

\* template.kind, by the ComponentKind member's name
TemplateKind(t) ==
  CASE t = "INPUT_1" -> "Input1"
    [] t = "OUTPUT_1" -> "Output1"
    [] t = "CONST_0" -> "Off"
    [] t = "CONST_1" -> "On"
    [] t = "CUSTOM_GENERIC" -> "Custom"
    [] t = "NOT_1" -> "Not"
    [] t = "AND_1" -> "And"
    [] t = "OR_1" -> "Or"
    [] t = "XOR_1" -> "Xor"
    [] t = "XNOR_1" -> "Xnor"
    [] t = "REG_1" -> "BitMemory"
    [] t = "MAKER_8" -> "Maker8"
    [] t = "SPLITTER_8" -> "Splitter8"

HasNode(lay, id) == \E i \in 1..Len(lay.nodes) : lay.nodes[i].id = id

\* layout.nodes.find(n => n.id === id)
NodeOf(lay, id) ==
  lay.nodes[CHOOSE i \in 1..Len(lay.nodes) :
              lay.nodes[i].id = id /\ \A j \in 1..(i-1) : lay.nodes[j].id # id]

\* one element of toTcComponents' map, a Custom component placed like the others
TcComponentAt_customNotShifted(node, b, kind, component, index) ==
  [kind |-> kind,
   position |-> Pt(node.x - b.minX, node.y - b.minY),
   permanentId |-> index + 1,
   customString |-> component.label,
   setting1 |-> IF component.setting1 = -1 THEN 0 ELSE component.setting1,
   customId |-> component.customId]

\* one element of toTcComponents' map; index is 0-based
TcComponentAt(node, b, kind, component, index) ==
  [kind |-> kind,
   position |-> Pt(node.x - b.minX - (IF kind = "Custom" THEN 32 ELSE 0),
                   node.y - b.minY - (IF kind = "Custom" THEN 32 ELSE 0)),
   permanentId |-> index + 1,
   customString |-> component.label,
   setting1 |-> IF component.setting1 = -1 THEN 0 ELSE component.setting1,
   customId |-> component.customId]

toTcComponent(lay, component, index) ==
  TcComponentAt(NodeOf(lay, component.id), TemplateBounds(component.template),
                TemplateKind(component.template), component, index)

\* toTcComponents numbering the records from 0
toTcComponents_numberedFromZero(lay, cs) ==
  IF \E i \in 1..Len(cs) : ~HasNode(lay, cs[i].id)
  THEN [err |-> "Missing layout node", components |-> <<>>]
  ELSE [err |-> "none",
        components |-> [i \in 1..Len(cs) |-> toTcComponent(lay, cs[i], i - 2)]]

\* [err, components]
toTcComponents(lay, cs) ==
  IF \E i \in 1..Len(cs) : ~HasNode(lay, cs[i].id)
  THEN [err |-> "Missing layout node", components |-> <<>>]
  ELSE [err |-> "none",
        components |-> [i \in 1..Len(cs) |-> toTcComponent(lay, cs[i], i - 1)]]

\* does the template have a port with this id
HasPort(t, portId) == \E i \in 1..Len(TemplatePorts(t)) : TemplatePorts(t)[i].id = portId

PortOf(t, portId) ==
  TemplatePorts(t)[CHOOSE i \in 1..Len(TemplatePorts(t)) : TemplatePorts(t)[i].id = portId]

\* componentX + port.position.x, componentY + port.position.y
PortPoint(node, b, port) ==
  [err |-> "none", point |-> Pt(node.x - b.minX + port.x, node.y - b.minY + port.y)]

PortPositionOn(node, t, portId) ==
  IF ~HasPort(t, portId) THEN [err |-> "Port missing", point |-> Pt(0, 0)]
  ELSE PortPoint(node, TemplateBounds(t), PortOf(t, portId))

\* [err, point]
findPortPosition(lay, cs, componentId, portId) ==
  IF ~HasNode(lay, componentId) THEN [err |-> "Layout node missing", point |-> Pt(0, 0)]
  ELSE IF ~HasComponent(cs, componentId) THEN [err |-> "Component missing", point |-> Pt(0, 0)]
  ELSE PortPositionOn(NodeOf(lay, componentId), TemplateOfId(cs, componentId), portId)

\* the number a template id ends with (/_(\d+)$/), -1 when it ends with none
\* the template families registered for each of SIZES, in the order of SIZES
SizedFamilies ==
  {<<"INPUT_8", "INPUT_16", "INPUT_32", "INPUT_64">>,
   <<"OUTPUT_8", "OUTPUT_16", "OUTPUT_32", "OUTPUT_64">>,
   <<"CONST_8", "CONST_16", "CONST_32", "CONST_64">>,
   <<"MAKER_8", "MAKER_16", "MAKER_32", "MAKER_64">>,
   <<"SPLITTER_8", "SPLITTER_16", "SPLITTER_32", "SPLITTER_64">>,
   <<"AND_8", "AND_16", "AND_32", "AND_64">>,
   <<"OR_8", "OR_16", "OR_32", "OR_64">>,
   <<"XOR_8", "XOR_16", "XOR_32", "XOR_64">>,
   <<"XNOR_8", "XNOR_16", "XNOR_32", "XNOR_64">>,
   <<"NOT_8", "NOT_16", "NOT_32", "NOT_64">>,
   <<"MUX_8", "MUX_16", "MUX_32", "MUX_64">>,
   <<"EQUAL_8", "EQUAL_16", "EQUAL_32", "EQUAL_64">>,
   <<"LESSU_8", "LESSU_16", "LESSU_32", "LESSU_64">>,
   <<"LESSI_8", "LESSI_16", "LESSI_32", "LESSI_64">>,
   <<"REG_8", "REG_16", "REG_32", "REG_64">>}

\* the number template.id.match(/_(\d+)$/) finds, -1 when there is none
TemplateIdNumber(t) ==
  CASE t \in {"INPUT_1", "OUTPUT_1", "CONST_1", "NOT_1", "AND_1", "OR_1", "XOR_1",
              "XNOR_1", "REG_1", "EQUAL_1"} -> 1
    [] t = "CONST_0" -> 0
    [] \E f \in SizedFamilies : \E i \in 1..4 : f[i] = t ->
         <<8, 16, 32, 64>>[CHOOSE i \in 1..4 : \E f \in SizedFamilies : f[i] = t]
    [] OTHER -> -1

getPortWidth(component, portId) ==
  IF TemplateIdNumber(component.template) = -1 THEN 1
  ELSE IF IsSplitter(component.template) THEN 1
  ELSE TemplateIdNumber(component.template)

widthToWireKind(width) ==
  CASE width = 1 -> "Wk1"
    [] width = 8 -> "Wk8"
    [] width = 16 -> "Wk16"
    [] width = 32 -> "Wk32"
    [] width = 64 -> "Wk64"
    [] OTHER -> "Wk1"

WireErr(msg) == [err |-> msg, wire |-> [start |-> Pt(0, 0), body |-> <<>>, kind |-> ""]]

\* index of netlist.components.find(c => c.id === text), 0 when there is none
findComponent(cs, text) ==
  IF \E i \in 1..Len(cs) : IdStr(cs[i].id) = text
  THEN SetMin({i \in 1..Len(cs) : IdStr(cs[i].id) = text})
  ELSE 0

\* template.ports.find(port => port.id === text) finds a port
HasPortText(t, text) ==
  \E q \in 1..Len(TemplatePorts(t)) : <<TemplatePorts(t)[q].id>> = text

\* "Force start and end to match precise port locations"
ForcedPoints(points, sourceStart, targetEnd) ==
  IF Len(points) = 0 THEN <<sourceStart, targetEnd>>
  ELSE [[points EXCEPT ![1] = sourceStart] EXCEPT ![Len(points)] = targetEnd]

WireOfEncoding(sourceStart, kind, enc) ==
  IF enc.err # "none" THEN WireErr(enc.err)
  ELSE [err |-> "none", wire |-> [start |-> sourceStart, body |-> enc.body, kind |-> kind]]

WireOfPositions(edge, sourceComponent, sourcePortId, src, dst) ==
  IF src.err # "none" THEN WireErr(src.err)
  ELSE IF dst.err # "none" THEN WireErr(dst.err)
  ELSE WireOfEncoding(src.point,
                      widthToWireKind(getPortWidth(sourceComponent, sourcePortId)),
                      encodeWire(ForcedPoints(edge.points, src.point, dst.point)))

WireOfComponents(lay, cs, edge, info, si, ti) ==
  IF si = 0 \/ ti = 0 THEN WireErr("Component not found")
  ELSE IF \/ ~HasPortText(cs[si].template, info.sourcePort)
          \/ ~HasPortText(cs[ti].template, info.targetPort)
  THEN WireErr("Missing ports for edge")
  ELSE WireOfPositions(edge, cs[si], info.sourcePort[1],
                       findPortPosition(lay, cs, cs[si].id, info.sourcePort[1]),
                       findPortPosition(lay, cs, cs[ti].id, info.targetPort[1]))

WireOfInfo(lay, cs, edge, info) ==
  IF ~info.ok THEN WireErr("Invalid edge id")
  ELSE WireOfComponents(lay, cs, edge, info,
                        findComponent(cs, info.sourceComponent),
                        findComponent(cs, info.targetComponent))

\* one iteration of wiresFromLayout's loop: [err, wire]
wireFromEdge(lay, cs, edge) == WireOfInfo(lay, cs, edge, decodeEdgeId(edge.id))

\* [err, wires]: the first edge that throws ends the loop
WiresCons(w, rest) ==
  IF w.err # "none" THEN [err |-> w.err, wires |-> <<>>]
  ELSE IF rest.err # "none" THEN rest
  ELSE [err |-> "none", wires |-> <<w.wire>> \o rest.wires]

RECURSIVE wiresFromLayoutFrom(_, _, _)
wiresFromLayoutFrom(lay, cs, k) ==
  IF k > Len(lay.edges) THEN [err |-> "none", wires |-> <<>>]
  ELSE WiresCons(wireFromEdge(lay, cs, lay.edges[k]), wiresFromLayoutFrom(lay, cs, k + 1))

wiresFromLayout(lay, cs) == wiresFromLayoutFrom(lay, cs, 1)

\* the wire records and the dependency list createPayload builds
PayloadOf(comps, ws) ==
  IF comps.err # "none" THEN [err |-> comps.err, payload |-> NoPayload]
  ELSE IF ws.err # "none" THEN [err |-> ws.err, payload |-> NoPayload]
  ELSE [err |-> "none",
        payload |-> [built |-> TRUE,
                     components |-> comps.components,
                     wires |-> [i \in 1..Len(ws.wires) |->
                                  [kind |-> ws.wires[i].kind, color |-> "Default",
                                   comment |-> "", start |-> ws.wires[i].start,
                                   body |-> ws.wires[i].body]],
                     dependencies |->
                       {comps.components[i].customId : i \in
                          {i \in 1..Len(comps.components) :
                             /\ comps.components[i].kind = "Custom"
                             /\ comps.components[i].customId # -1}}]]

\* createPayload with compact = false: [err, payload]
createPayload(lay, cs) == PayloadOf(toTcComponents(lay, cs), wiresFromLayout(lay, cs))

----------------------------------------------------------------------------
(* The synthesizer modules explored: 1-bit ports and cells *)

InputNames == <<"a", "b", "s", "t">>
\* the modules have one output port
OutputNames == <<"y">>
CellNames == <<"c1", "c2", "c3">>

\* the bit the synthesizer numbers input port k with
InputBit(k) == Bit(k + 1)
\* the bit driven by cell k
CellBit(k) == Bit(10 + k)

Gate(type, A, B, Y) ==
  [type |-> type, connections |-> [A |-> <<A>>, B |-> <<B>>, Y |-> <<Y>>],
   parameters |-> [WIDTH |-> 1]]
Not(A, Y) ==
  [type |-> "$not", connections |-> [A |-> <<A>>, Y |-> <<Y>>], parameters |-> [WIDTH |-> 1]]
Mux(A, B, S, Y) ==
  [type |-> "$mux", connections |-> [A |-> <<A>>, B |-> <<B>>, S |-> <<S>>, Y |-> <<Y>>],
   parameters |-> [WIDTH |-> 1]]
Dff(CLK, D, Q, pol) ==
  [type |-> "$dff", connections |-> [CLK |-> <<CLK>>, D |-> <<D>>, Q |-> <<Q>>],
   parameters |-> [WIDTH |-> 1, CLK_POLARITY |-> pol]]
Instance(type, in, out) ==
  [type |-> type, connections |-> [in |-> <<in>>, out |-> <<out>>],
   parameters |-> [WIDTH |-> 1]]

\* the cells cell number k may be
CellChoices(k) ==
  LET Y == CellBit(k) IN
    {Gate("$and", A, Bit(3), Y) : A \in {Bit(2), Lit("0"), Bit(12)}}
    \cup {Gate("$or", A, Bit(3), Y) : A \in {Bit(11), Lit("0")}}
    \cup {Not(Bit(2), Y), Not(Bit(3), Bit(2))}
    \cup {Mux(m[1], m[2], Bit(4), Y) :
            m \in {<<Bit(2), Bit(3)>>, <<Lit("0"), Bit(3)>>, <<Lit("1"), Bit(3)>>,
                   <<Bit(2), Lit("0")>>, <<Bit(2), Lit("1")>>}}
    \cup {Mux(Bit(2), Bit(3), Lit("1"), Y)}
    \cup {Dff(Bit(4), Bit(2), Y, 1), Dff(Lit("1"), Bit(2), Y, 1), Dff(Bit(4), Bit(2), Y, 0)}
    \cup {Instance("sub", Bit(2), Y)}

\* the bit a module output port may read
OutputBits == {Bit(2), Bit(5), Bit(11), Bit(12), Lit("1")}

----------------------------------------------------------------------------
(* The compile as a state machine *)

CurGraph == Graph(components, nets, netOrder, counter, err)

\* take over the graph an operation produced; a thrown exception ends the compile
Commit(g, next) ==
  /\ components' = g.components
  /\ nets' = g.nets
  /\ netOrder' = g.order
  /\ counter' = g.counter
  /\ err' = g.err
  /\ pc' = IF g.err = "none" THEN next ELSE "failed"

NumPorts(direction) == Len(SelectSeq(ports, LAMBDA p : p.direction = direction))

Init ==
  /\ pc = "inputs"
  /\ components = <<>>
  /\ nets = <<>>
  /\ netOrder = <<>>
  /\ counter = [zero |-> 0, one |-> 0]
  /\ err = "none"
  /\ ports = <<>>
  /\ cells = <<>>
  /\ layout = NoLayout
  /\ payload = NoPayload
  /\ wire = NoWire
  /\ save = NoSave
  /\ driver = NoDriver
  /\ binarySink = NoSink
  /\ firstRun = NoRun
  /\ pack = NoPack

\* "1. Process Module Input Ports (Drivers)", one 1-bit port
ProcessInputPort ==
  /\ pc = "inputs"
  /\ NumPorts("input") < MaxInputs
  /\ LET portName == InputNames[NumPorts("input") + 1]
         bit == InputBit(NumPorts("input") + 1)
     IN /\ Commit(LowerInputPort(CurGraph, portName, bit), "inputs")
        /\ ports' = Append(ports, [name |-> portName, direction |-> "input", bits |-> <<bit>>])
  /\ UNCHANGED <<cells, layout, payload, wire, save, driver, binarySink, firstRun, pack>>

\* "2. Process Cells (Logic)", one cell
ProcessCell ==
  /\ pc \in {"inputs", "cells"}
  /\ Len(cells) < MaxCells
  /\ \E cell \in CellChoices(Len(cells) + 1) :
       LET cellName == CellNames[Len(cells) + 1] IN
       /\ Commit(LowerCell(CurGraph, cellName, cell), "cells")
       /\ cells' = Append(cells, [name |-> cellName, cell |-> cell])
  /\ UNCHANGED <<ports, layout, payload, wire, save, driver, binarySink, firstRun, pack>>

\* "3. Process Module Output Ports (Consumers)", one 1-bit port
ProcessOutputPort ==
  /\ pc \in {"inputs", "cells", "outputs"}
  /\ NumPorts("output") < Len(OutputNames)
  /\ \E bit \in OutputBits :
       LET portName == OutputNames[NumPorts("output") + 1] IN
         /\ Commit(LowerOutputPort(CurGraph, portName, bit), "outputs")
         /\ ports' = Append(ports, [name |-> portName, direction |-> "output", bits |-> <<bit>>])
  /\ UNCHANGED <<cells, layout, payload, wire, save, driver, binarySink, firstRun, pack>>

\* the net check at the end of buildNetlistFromYosys: its throw is commented
\* out, the loop body is empty
VerifyDrivers(g) == g

\* the tail of buildNetlistFromYosys: pair merge, cleanup, net check, return
FinishNetlist(g) ==
  IF g.err # "none" THEN g
  ELSE VerifyDrivers(cleanupRedundantComponents(optimizeMakerSplitterPairs(g)))

FinishLowering ==
  /\ pc \in {"inputs", "cells", "outputs"}
  /\ Commit(FinishNetlist(CurGraph), "lowered")
  /\ UNCHANGED <<ports, cells, layout, payload, wire, save, driver, binarySink, firstRun, pack>>

\* optimizeNetlist(netlist) in convertVerilogToSave
OptimizeNetlist ==
  /\ pc = "lowered"
  /\ LET r == optimizeNetlist(components, nets, netOrder) IN
       /\ components' = r.components
       /\ nets' = r.nets
       /\ netOrder' = r.order
  /\ pc' = "optimized"
  /\ UNCHANGED <<counter, err, ports, cells, layout, payload, wire, save, driver, binarySink, firstRun, pack>>

\* what the layout engine (elk.layout) returns for a graph.  Coordinates are
\* in halves.  Child k is placed by its index; an edge gets no section
\* ("none"), one section from its source port to its target port
\* ("straight") or one with a bend point at the corner ("bend").
ElkStyles == {"none", "straight", "bend"}

NodeIndex(graph, id) ==
  CHOOSE k \in 1..Len(graph.nodes) :
    graph.nodes[k].id = id /\ \A j \in 1..(k-1) : graph.nodes[j].id # id

\* does the edge end name a node of the graph and a port of its template
Resolves(graph, cs, ref) ==
  /\ \E k \in 1..Len(graph.nodes) : graph.nodes[k].id = ref.componentId
  /\ HasComponent(cs, ref.componentId)
  /\ HasPort(TemplateOfId(cs, ref.componentId), ref.portId)

Dangling(graph, cs) ==
  \E k \in 1..Len(graph.edges) :
    ~Resolves(graph, cs, graph.edges[k].source) \/ ~Resolves(graph, cs, graph.edges[k].target)

\* where the engine sees a port: the child's position plus the port's offset
\* in the node
ElkPortAt(child, b, port) ==
  Pt(child.x + 2 * (port.x - b.minX), child.y + 2 * (port.y - b.minY))

ElkSections(style, from, to) ==
  IF style = "none" THEN <<>>
  ELSE <<[startPoint |-> <<from>>,
          bendPoints |-> IF style = "bend" THEN <<Pt(to.x, from.y)>> ELSE <<>>,
          endPoint |-> <<to>>]>>

ElkChildren(graph) ==
  [k \in 1..Len(graph.nodes) |->
     [id |-> graph.nodes[k].id,
      x |-> 16 * (k - 1) + (k % 2), y |-> 3 * (k % 3),
      width |-> graph.nodes[k].width, height |-> graph.nodes[k].height]]

ElkPortOfRef(graph, cs, ref) ==
  ElkPortAt(ElkChildren(graph)[NodeIndex(graph, ref.componentId)],
            TemplateBounds(TemplateOfId(cs, ref.componentId)),
            PortOf(TemplateOfId(cs, ref.componentId), ref.portId))

ElkLayered(graph, cs, style) ==
  [children |-> ElkChildren(graph),
   edges |-> [k \in 1..Len(graph.edges) |->
                [id |-> graph.edges[k].id,
                 sections |->
                   IF \/ ~Resolves(graph, cs, graph.edges[k].source)
                      \/ ~Resolves(graph, cs, graph.edges[k].target)
                   THEN <<>>
                   ELSE ElkSections(style,
                                    ElkPortOfRef(graph, cs, graph.edges[k].source),
                                    ElkPortOfRef(graph, cs, graph.edges[k].target))]]]

\* router.route's result, then alignIOComponents and centerLayout
Routed(answer, cs) == centerLayout(alignIOComponents(fromElkGraph(answer), cs))

\* buildLayoutGraph, router.route, alignIOComponents, centerLayout
RouteLayout ==
  /\ pc = "optimized"
  /\ \/ /\ Dangling(buildLayoutGraph(components, nets, netOrder), components)
        /\ pc' = "failed"
        /\ err' = "layout engine error"
        /\ UNCHANGED layout
     \/ \E style \in ElkStyles :
          /\ layout' = Routed(ElkLayered(buildLayoutGraph(components, nets, netOrder),
                                         components, style), components)
          /\ pc' = "routed"
          /\ UNCHANGED err
  /\ UNCHANGED <<components, nets, netOrder, counter, ports, cells, payload, wire, save, driver, binarySink, firstRun, pack>>

\* createPayload(layout, netlist, ...)
CreatePayload ==
  /\ pc = "routed"
  /\ payload' = createPayload(layout, components).payload
  /\ err' = createPayload(layout, components).err
  /\ pc' = IF payload'.built THEN "payload" ELSE "failed"
  /\ UNCHANGED <<components, nets, netOrder, counter, ports, cells, layout, wire, save, driver, binarySink, firstRun, pack>>

Next ==
  \/ ProcessInputPort
  \/ ProcessCell
  \/ ProcessOutputPort
  \/ FinishLowering
  \/ OptimizeNetlist
  \/ RouteLayout
  \/ CreatePayload

Spec == Init /\ [][Next]_vars

----------------------------------------------------------------------------
(* Properties of the netlist *)

\* the port of a cell that the cell drives
CellOutPort(cell) ==
  IF cell.type = "$dff" THEN "Q"
  ELSE IF cell.type \in DOMAIN CELL_LIBRARY THEN "Y" ELSE "out"

CellReadBits(cell) ==
  {cell.connections[p][1] : p \in (DOMAIN cell.connections) \ {CellOutPort(cell)}}

\* the numbered bits the module drives (input ports, cell outputs), as a
\* sequence so that a bit driven twice shows
DrivenBitSeq ==
  [i \in 1..Len(SelectSeq(ports, LAMBDA q : q.direction = "input")) |->
      SelectSeq(ports, LAMBDA q : q.direction = "input")[i].bits[1]]
  \o [i \in 1..Len(cells) |-> cells[i].cell.connections[CellOutPort(cells[i].cell)][1]]

ReadBits ==
  UNION {CellReadBits(cells[i].cell) : i \in 1..Len(cells)}
  \cup {ports[i].bits[1] : i \in {i \in 1..Len(ports) : ports[i].direction = "output"}}

\* the module is one a synthesizer emits: every numbered bit that is read is
\* driven, and no bit is driven twice
WellFormedModule ==
  /\ \A b \in ReadBits : b.lit = "n" => \E i \in 1..Len(DrivenBitSeq) : DrivenBitSeq[i] = b
  /\ \A i, j \in 1..Len(DrivenBitSeq) : DrivenBitSeq[i] = DrivenBitSeq[j] => i = j

NetRefs(n) == {nets[n].source} \cup {nets[n].sinks[j] : j \in 1..Len(nets[n].sinks)}

CountTemplate(t) == Cardinality({i \in 1..Len(components) : components[i].template = t})

\* C1: in the final netlist (after lowering, pair merge, cleanup and constant
\* folding) every net that has at least one sink has a source, for every
\* well-formed input module.
C1_SinkedNetsAreDriven ==
  (pc = "optimized" /\ WellFormedModule) =>
    \A n \in DOMAIN nets : Len(nets[n].sinks) > 0 => nets[n].source # NoRef

\* C2: in the final netlist every port reference held by a net (source or
\* sink) names a component that is present in the component list.
C2_RefsNamePresentComponents ==
  (pc = "optimized" /\ WellFormedModule) =>
    \A n \in DOMAIN nets : \A r \in NetRefs(n) :
      r # NoRef => HasComponent(components, r.componentId)

\* C4: once all cells and ports are lowered, a net without a driver makes the
\* lowering abort instead of returning a netlist; so a returned netlist has no
\* undriven net.
C4_ReturnedNetlistHasNoUndrivenNet ==
  pc = "lowered" => \A n \in DOMAIN nets : nets[n].source # NoRef

\* the single-bit mux y = s ? b : a of three module inputs
IsMuxModule ==
  /\ ports = <<[name |-> "a", direction |-> "input", bits |-> <<Bit(2)>>],
               [name |-> "b", direction |-> "input", bits |-> <<Bit(3)>>],
               [name |-> "s", direction |-> "input", bits |-> <<Bit(4)>>],
               [name |-> "y", direction |-> "output", bits |-> <<Bit(11)>>]>>
  /\ cells = <<[name |-> "c1", cell |-> Mux(Bit(2), Bit(3), Bit(4), Bit(11))]>>

\* is the port (template, portId) of some component of that template a sink
\* of the net driven by the port (srcTemplate, srcPort) of some component
Wired(srcTemplate, srcBase, dstTemplate, dstPort) ==
  \E n \in DOMAIN nets :
    /\ nets[n].source # NoRef
    /\ \E i \in 1..Len(components) :
         /\ components[i].id = nets[n].source.componentId
         /\ components[i].template = srcTemplate
         /\ srcBase # "" => components[i].id.base = srcBase
    /\ \E j \in 1..Len(nets[n].sinks) : \E i \in 1..Len(components) :
         /\ components[i].id = nets[n].sinks[j].componentId
         /\ components[i].template = dstTemplate
         /\ nets[n].sinks[j].portId = dstPort

\* C9: the mux y = s ? b : a compiles, constant folding included, to exactly
\* three Input1, one NOT_1, two AND_1, one OR_1 and one Output1, wired as
\* y = (a AND NOT s) OR (b AND s).
C9_MuxDecomposition ==
  (pc = "optimized" /\ IsMuxModule) =>
    /\ Len(components) = 8
    /\ CountTemplate("INPUT_1") = 3 /\ CountTemplate("NOT_1") = 1
    /\ CountTemplate("AND_1") = 2 /\ CountTemplate("OR_1") = 1
    /\ CountTemplate("OUTPUT_1") = 1
    /\ Wired("INPUT_1", "s", "NOT_1", "A")
    /\ Wired("INPUT_1", "a", "AND_1", "A") /\ Wired("NOT_1", "", "AND_1", "B")
    /\ Wired("INPUT_1", "b", "AND_1", "A") /\ Wired("INPUT_1", "s", "AND_1", "B")
    /\ Wired("AND_1", "", "OR_1", "A") /\ Wired("AND_1", "", "OR_1", "B")
    /\ Wired("OR_1", "", "OUTPUT_1", "in")

\* C10: a cell whose type is a known submodule is lowered to one instance of
\* the generic Custom template carrying the submodule's id; lowering does not
\* abort on it.
C10_CustomCellLowered ==
  \A i \in 1..Len(cells) :
    (cells[i].cell.type \in DOMAIN customComponentMapping
     /\ \A j \in 1..(i-1) : cells[j].cell.type \in DOMAIN CELL_LIBRARY \cup {"$dff"}) =>
      \/ err = "already has a driver"
      \/ /\ err = "none"
         /\ \E k \in 1..Len(components) :
              /\ components[k].template = "CUSTOM_GENERIC"
              /\ components[k].id.base = cells[i].name
              /\ components[k].customId = customComponentMapping[cells[i].cell.type]

\* the module y = a & b of two module inputs
IsAndModule ==
  /\ ports = <<[name |-> "a", direction |-> "input", bits |-> <<Bit(2)>>],
               [name |-> "b", direction |-> "input", bits |-> <<Bit(3)>>],
               [name |-> "y", direction |-> "output", bits |-> <<Bit(11)>>]>>
  /\ cells = <<[name |-> "c1", cell |-> Gate("$and", Bit(2), Bit(3), Bit(11))]>>

\* the (driver, sink) pairs of the nets that have a driver
DriverSinkPairs ==
  UNION {{<<nets[n].source, nets[n].sinks[j]>> : j \in 1..Len(nets[n].sinks)} :
           n \in {m \in DOMAIN nets : nets[m].source # NoRef}}

CountKind(kind) ==
  Cardinality({i \in 1..Len(payload.components) : payload.components[i].kind = kind})

\* C8: a payload built in routed mode holds one component record per component
\* of the final netlist, in order and of the component's kind, and as many
\* wires as the driven nets have (driver, sink) pairs; for y = a & b these are
\* two Input1, one And, one Output1 and three wires.
C8_PayloadCoversNetlist ==
  pc = "payload" =>
    /\ Len(payload.components) = Len(components)
    /\ \A i \in 1..Len(components) :
         /\ payload.components[i].kind = TemplateKind(components[i].template)
         /\ payload.components[i].permanentId = i
    /\ Len(payload.wires) = Cardinality(DriverSinkPairs)
    /\ IsAndModule =>
         /\ Len(payload.components) = 4
         /\ CountKind("Input1") = 2 /\ CountKind("And") = 1 /\ CountKind("Output1") = 1
         /\ Len(payload.wires) = 3

C8_Witness ==
  /\ pc = "payload"
  /\ IsAndModule
  /\ Len(payload.components) = 4
  /\ Len(payload.wires) = 3

\* C17: in a payload the permanent ids are pairwise distinct, and the i-th
\* record, which is the record of the i-th component of the optimized
\* netlist, has permanent id i
C17_PermanentIdsCountFromOne ==
  pc = "payload" =>
    /\ \A i, j \in 1..Len(payload.components) :
         payload.components[i].permanentId = payload.components[j].permanentId => i = j
    /\ \A i \in 1..Len(payload.components) :
         /\ i <= Len(components)
         /\ payload.components[i].customString = components[i].label
         /\ payload.components[i].kind = TemplateKind(components[i].template)
         /\ payload.components[i].permanentId = i

\* y = ~a: the records of the input, the inverter and the output are
\* numbered 1, 2, 3
C17_Witness ==
  /\ pc = "payload"
  /\ Len(payload.components) = 3
  /\ payload.components[2].kind = "Not"
  /\ payload.components[1].permanentId = 1
  /\ payload.components[2].permanentId = 2
  /\ payload.components[3].permanentId = 3

LoweringPcs == {"inputs", "cells", "outputs"}

\* port references a caller may try to register on net n: a fresh one, and the
\* driver the net already has
ProbeRefs(n) == {PortRef(CompId("probe", ""), "Y"), nets[n].source}

\* registerSource on a net that has a driver throws and changes nothing
RegisterOnDrivenNetFails ==
  \A n \in DOMAIN nets : (err = "none" /\ nets[n].source # NoRef) =>
    \A ref \in ProbeRefs(n) :
      LET r == registerSource(CurGraph, n, ref) IN
        r.err = "already has a driver" /\ r.nets = nets /\ r.components = components

\* while lowering, a net that has a driver keeps exactly that driver
DriverKept ==
  (pc \in LoweringPcs /\ pc' \in LoweringPcs \cup {"failed"}) =>
    \A n \in DOMAIN nets : nets[n].source # NoRef =>
      n \in DOMAIN nets' /\ nets'[n].source = nets[n].source

\* C3: registering a source on a net that already has a driver fails with an
\* error and leaves the net's driver and sinks unchanged, so no sequence of
\* register-source / register-sink operations gives a net a second driver.
C3_SecondSourceRejected == [](RegisterOnDrivenNetFails) /\ [][DriverKept]_vars

\* a cell whose output bit is already driven by a module input was lowered
\* and the lowering aborted, the input still being the driver
C3_Witness ==
  /\ pc = "failed" /\ err = "already has a driver"
  /\ Len(cells) > 0
  /\ LET bit == cells[Len(cells)].cell.connections[CellOutPort(cells[Len(cells)].cell)][1]
         n == NetId("bit", "", bit.n)
     IN n \in DOMAIN nets /\ nets[n].source.componentId.role = "in:"

----------------------------------------------------------------------------
(* encodeWire on its own: polylines over a small grid *)

MaxPolyPoints == 3

\* grid coordinates: distances of 1, 31, 32 and 33 occur
WireXs == {0, 1, 32, 33}
WireYs == {0, 32}
WirePoints == {Pt(x, y) : x \in WireXs, y \in WireYs}

Polylines == UNION {[1..k -> WirePoints] : k \in 0..MaxPolyPoints}

InitWire ==
  /\ pc = "wire"
  /\ components = <<>>
  /\ nets = <<>>
  /\ netOrder = <<>>
  /\ counter = [zero |-> 0, one |-> 0]
  /\ err = "none"
  /\ ports = <<>>
  /\ cells = <<>>
  /\ layout = NoLayout
  /\ payload = NoPayload
  /\ \E points \in Polylines : wire = [NoWire EXCEPT !.points = points]
  /\ save = NoSave
  /\ driver = NoDriver
  /\ binarySink = NoSink
  /\ firstRun = NoRun
  /\ pack = NoPack

\* const body = encodeWire(points)
EncodeWire ==
  /\ pc = "wire"
  /\ ~wire.encoded
  /\ LET r == encodeWire(wire.points) IN
       wire' = [wire EXCEPT !.encoded = TRUE, !.err = r.err, !.body = r.body]
  /\ UNCHANGED <<pc, components, nets, netOrder, counter, err, ports, cells, layout, payload, save, driver, binarySink, firstRun, pack>>

NextWire == EncodeWire

SpecWire == InitWire /\ [][NextWire]_vars

AxisParallel(points) ==
  \A i \in 1..(Len(points) - 1) : points[i].x = points[i + 1].x \/ points[i].y = points[i + 1].y

\* the unit moves a body stands for: each byte before the first zero byte is
\* (direction << 5) | run
RECURSIVE DecodeBody(_)
DecodeBody(body) ==
  IF body = <<>> \/ body[1] = 0 THEN <<>>
  ELSE [k \in 1..(body[1] % 32) |-> DIRECTIONS[(body[1] \div 32) + 1]] \o DecodeBody(Tail(body))

\* the sum of the first k moves, per coordinate
RECURSIVE SumX(_, _)
SumX(moves, k) == IF k = 0 THEN 0 ELSE SumX(moves, k - 1) + moves[k].x
RECURSIVE SumY(_, _)
SumY(moves, k) == IF k = 0 THEN 0 ELSE SumY(moves, k - 1) + moves[k].y

\* the point reached from start by the moves
Walk(start, moves) ==
  Pt(start.x + SumX(moves, Len(moves)), start.y + SumY(moves, Len(moves)))

UnitMoves(path) == [k \in 1..(Len(path) - 1) |-> Vec(path, k)]

\* C5: for a polyline of two or more grid points with axis-parallel segments of
\* any length, the body is a list of bytes (direction << 5) | run with run in
\* 1..31, then exactly one zero byte; decoding the runs gives the unit moves
\* of the densified polyline, which lead from the first point to the last.
C5_EncodeDecodeRoundTrip ==
  (wire.encoded /\ Len(wire.points) >= 2 /\ AxisParallel(wire.points)) =>
    /\ wire.err = "none"
    /\ Len(wire.body) >= 1
    /\ wire.body[Len(wire.body)] = 0
    /\ \A i \in 1..(Len(wire.body) - 1) :
         /\ wire.body[i] \in 0..255
         /\ wire.body[i] % 32 \in 1..MAX_RUN
    /\ DecodeBody(wire.body) = UnitMoves(densify(wire.points))
    /\ \A i \in 1..Len(DecodeBody(wire.body)) :
         Abs(DecodeBody(wire.body)[i].x) + Abs(DecodeBody(wire.body)[i].y) = 1
    /\ Walk(wire.points[1], DecodeBody(wire.body)) = wire.points[Len(wire.points)]

\* a polyline with a zero-length segment and a segment longer than 31 was
\* encoded into more than one run
C5_Witness ==
  /\ wire.encoded /\ wire.err = "none"
  /\ Len(wire.points) = 3 /\ AxisParallel(wire.points)
  /\ wire.points[1] = wire.points[2]
  /\ Abs(wire.points[3].x - wire.points[2].x) > MAX_RUN
  /\ Len(wire.body) > 2

----------------------------------------------------------------------------
(* Routing one netlist under every answer the layout engine may give *)

MaxBendPoints == 2

\* the lowered and folded netlist of a module given as inputs, cells, output
NetlistOf(g) == optimizeNetlist(FinishNetlist(g).components, FinishNetlist(g).nets,
                                FinishNetlist(g).order)

EmptyGraph == Graph(<<>>, <<>>, <<>>, [zero |-> 0, one |-> 0], "none")

\* assign y = a
WireThroughModule ==
  [ports |-> <<[name |-> "a", direction |-> "input", bits |-> <<Bit(2)>>],
               [name |-> "y", direction |-> "output", bits |-> <<Bit(2)>>]>>,
   cells |-> <<>>,
   graph |-> LowerOutputPort(LowerInputPort(EmptyGraph, "a", Bit(2)), "y", Bit(2))]

\* assign y = ~a
NotModule ==
  [ports |-> <<[name |-> "a", direction |-> "input", bits |-> <<Bit(2)>>],
               [name |-> "y", direction |-> "output", bits |-> <<Bit(11)>>]>>,
   cells |-> <<[name |-> "c1", cell |-> Not(Bit(2), Bit(11))]>>,
   graph |-> LowerOutputPort(LowerCell(LowerInputPort(EmptyGraph, "a", Bit(2)),
                                       "c1", Not(Bit(2), Bit(11))), "y", Bit(11))]

LayoutModules == {WireThroughModule, NotModule}

InitLayout ==
  /\ pc = "optimized"
  /\ \E m \in LayoutModules :
       /\ ports = m.ports
       /\ cells = m.cells
       /\ components = NetlistOf(m.graph).components
       /\ nets = NetlistOf(m.graph).nets
       /\ netOrder = NetlistOf(m.graph).order
       /\ counter = m.graph.counter
  /\ err = "none"
  /\ layout = NoLayout
  /\ payload = NoPayload
  /\ wire = NoWire
  /\ save = NoSave
  /\ driver = NoDriver
  /\ binarySink = NoSink
  /\ firstRun = NoRun
  /\ pack = NoPack

\* where the engine may put a node, and a bend point (in halves of a unit)
NodePlaces == {Pt(0, 0), Pt(17, 6)}
BendPlaces == {Pt(8, 0), Pt(9, 6)}

BendLists == UNION {[1..k -> BendPlaces] : k \in 0..MaxBendPoints}

\* what an edge of the answer may look like: no section, or one section whose
\* start point, bend points and end point are each optional
\* (ElkGraphEdgeSection)
SectionShapes ==
  {[section |-> FALSE, start |-> FALSE, bends |-> <<>>, end |-> FALSE]}
  \cup [section : {TRUE}, start : BOOLEAN, bends : BendLists, end : BOOLEAN]

ElkChildrenAt(graph, pos) ==
  [k \in 1..Len(graph.nodes) |->
     [id |-> graph.nodes[k].id, x |-> pos[k].x, y |-> pos[k].y,
      width |-> graph.nodes[k].width, height |-> graph.nodes[k].height]]

ElkPortOfRefAt(graph, cs, pos, ref) ==
  ElkPortAt(ElkChildrenAt(graph, pos)[NodeIndex(graph, ref.componentId)],
            TemplateBounds(TemplateOfId(cs, ref.componentId)),
            PortOf(TemplateOfId(cs, ref.componentId), ref.portId))

ElkSectionsOf(shape, from, to) ==
  IF ~shape.section THEN <<>>
  ELSE <<[startPoint |-> IF shape.start THEN <<from>> ELSE <<>>,
          bendPoints |-> shape.bends,
          endPoint |-> IF shape.end THEN <<to>> ELSE <<>>]>>

\* an answer of elk.layout: every node placed, every edge of some shape
ElkAnswer(graph, cs, pos, shapes) ==
  [children |-> ElkChildrenAt(graph, pos),
   edges |-> [k \in 1..Len(graph.edges) |->
                [id |-> graph.edges[k].id,
                 sections |-> ElkSectionsOf(shapes[k],
                                ElkPortOfRefAt(graph, cs, pos, graph.edges[k].source),
                                ElkPortOfRefAt(graph, cs, pos, graph.edges[k].target))]]]

\* router.route(graph), then alignIOComponents and centerLayout
RouteAnyLayout ==
  /\ pc = "optimized"
  /\ \E pos \in [1..Len(components) -> NodePlaces] :
       \E shapes \in [1..Len(buildLayoutGraph(components, nets, netOrder).edges)
                        -> SectionShapes] :
         layout' = Routed(ElkAnswer(buildLayoutGraph(components, nets, netOrder),
                                    components, pos, shapes), components)
  /\ pc' = "routed"
  /\ UNCHANGED <<components, nets, netOrder, counter, err, ports, cells, payload, wire, save, driver, binarySink, firstRun, pack>>

NextLayout == RouteAnyLayout \/ CreatePayload

SpecLayout == InitLayout /\ [][NextLayout]_vars

\* the source and target port references of the routed edge number k
RoutedEdge(k) == buildLayoutGraph(components, nets, netOrder).edges[k]

PortPosition(ref) == findPortPosition(layout, components, ref.componentId, ref.portId).point

\* C6: once the wires of a routed layout have been produced, every routed edge
\* has its wire, whatever points the engine returned for it: the wire starts at
\* the source port's position, its runs lead from there to the sink port's
\* position, and its body ends with the zero byte.
C6_WiresJoinPorts ==
  pc \in {"payload", "failed"} =>
    /\ payload.built
    /\ Len(payload.wires) = Len(layout.edges)
    /\ \A k \in 1..Len(layout.edges) :
         /\ payload.wires[k].start = PortPosition(RoutedEdge(k).source)
         /\ Walk(payload.wires[k].start, DecodeBody(payload.wires[k].body))
              = PortPosition(RoutedEdge(k).target)
         /\ payload.wires[k].body[Len(payload.wires[k].body)] = 0

\* the same, for edges the engine returned no point or at least two points for
C6_HoldsOffOnePoint ==
  (pc \in {"payload", "failed"} /\ \A k \in 1..Len(layout.edges) : Len(layout.edges[k].points) # 1) =>
    /\ payload.built
    /\ Len(payload.wires) = Len(layout.edges)
    /\ \A k \in 1..Len(layout.edges) :
         /\ payload.wires[k].start = PortPosition(RoutedEdge(k).source)
         /\ Walk(payload.wires[k].start, DecodeBody(payload.wires[k].body))
              = PortPosition(RoutedEdge(k).target)
         /\ payload.wires[k].body[Len(payload.wires[k].body)] = 0

----------------------------------------------------------------------------
(* The save writer: BinarySink and TCSaveWriter.  A write gives [err, bytes];
   strings are sequences of code points *)

\* declared with the payload types, which are not among the sources
SAVE_FORMAT_VERSION == 6
TELEPORT_WIRE == 32
ComponentKind_Custom == 94
ProgramKinds == {95, 96, 97}

Wrote(bytes) == [err |-> "none", bytes |-> bytes]
WriteError(msg) == [err |-> msg, bytes |-> <<>>]

\* two writes in a row: the first exception ends the build
Then(a, b) ==
  IF a.err # "none" THEN a
  ELSE IF b.err # "none" THEN b
  ELSE Wrote(a.bytes \o b.bytes)

RECURSIVE ThenAllFrom(_, _)
ThenAllFrom(writes, k) ==
  IF k > Len(writes) THEN Wrote(<<>>) ELSE Then(writes[k], ThenAllFrom(writes, k + 1))

ThenAll(writes) == ThenAllFrom(writes, 1)

\* big >> (8 * n)
RECURSIVE ShiftBytes(_, _)
ShiftBytes(big, n) == IF n = 0 THEN big ELSE ShiftBytes(big \div 256, n - 1)

\* writeUnsigned without the check of what is left of the value
writeUnsigned_unchecked(value, byteCount) ==
  IF value < 0 THEN WriteError("Unsigned value cannot be negative")
  ELSE Wrote([i \in 1..byteCount |-> ShiftBytes(value, i - 1) % 256])

writeUnsigned(value, byteCount) ==
  IF value < 0 THEN WriteError("Unsigned value cannot be negative")
  ELSE IF ShiftBytes(value, byteCount) # 0 THEN WriteError("Unsigned value exceeds bits")
  ELSE Wrote([i \in 1..byteCount |-> ShiftBytes(value, i - 1) % 256])

writeBoolean(value) == writeUnsigned(IF value THEN 1 ELSE 0, 1)

\* 1n << BigInt(byteCount * 8)
RECURSIVE SignedLimit(_)
SignedLimit(byteCount) == IF byteCount = 0 THEN 1 ELSE 256 * SignedLimit(byteCount - 1)

writeSigned(value, byteCount) ==
  IF \/ value < -(SignedLimit(byteCount) \div 2)
     \/ value >= SignedLimit(byteCount) \div 2
  THEN WriteError("Signed value exceeds bits")
  ELSE writeUnsigned(IF value < 0 THEN SignedLimit(byteCount) + value ELSE value, byteCount)

\* the UTF-8 bytes of one code point of the basic plane
Utf8(cp) ==
  IF cp < 128 THEN <<cp>>
  ELSE IF cp < 2048 THEN <<192 + (cp \div 64), 128 + (cp % 64)>>
  ELSE <<224 + (cp \div 4096), 128 + ((cp \div 64) % 64), 128 + (cp % 64)>>

\* new TextEncoder().encode(value): the bytes of the code points lo..hi,
\* and of the whole string
RECURSIVE TextEncodeRange(_, _, _)
TextEncodeRange(value, lo, hi) ==
  IF lo > hi THEN <<>>
  ELSE IF lo = hi THEN Utf8(value[lo])
  ELSE TextEncodeRange(value, lo, (lo + hi) \div 2)
       \o TextEncodeRange(value, ((lo + hi) \div 2) + 1, hi)

TextEncode(value) == TextEncodeRange(value, 1, Len(value))

writeString(value) ==
  IF Len(TextEncode(value)) > 65535 THEN WriteError("String exceeds 65535 bytes")
  ELSE Then(writeUnsigned(Len(TextEncode(value)), 2), Wrote(TextEncode(value)))

writePoint(point) == Then(writeSigned(point.x, 2), writeSigned(point.y, 2))

writePlayerByte(byte) ==
  IF byte < 0 \/ byte > 255 THEN WriteError("Player data byte must be 0-255")
  ELSE writeUnsigned(byte, 1)

writeHeader(p) ==
  ThenAll(<<writeUnsigned(p.saveId, 8),
            writeUnsigned(p.hubId, 4),
            writeUnsigned(p.gate, 8),
            writeUnsigned(p.delay, 8),
            writeBoolean(p.menuVisible),
            writeUnsigned(p.clockSpeed, 4),
            writeUnsigned(Len(p.dependencies), 2),
            ThenAll([i \in 1..Len(p.dependencies) |-> writeUnsigned(p.dependencies[i], 8)]),
            writeString(p.description),
            writePoint(p.cameraPosition),
            writeUnsigned(p.synced, 1),
            writeBoolean(p.campaignBound),
            writeUnsigned(0, 2),
            writeUnsigned(Len(p.playerData), 2),
            ThenAll([i \in 1..Len(p.playerData) |-> writePlayerByte(p.playerData[i])]),
            writeString(p.hubDescription)>>)

\* [...selected].sort by programId: a stable insertion of each entry after the
\* entries that are not greater
RECURSIVE SortedPrograms(_)
SortedPrograms(selected) ==
  IF selected = <<>> THEN <<>>
  ELSE SelectSeq(SortedPrograms(Tail(selected)),
                 LAMBDA e : e.programId < Head(selected).programId)
       \o <<Head(selected)>>
       \o SelectSeq(SortedPrograms(Tail(selected)),
                    LAMBDA e : ~(e.programId < Head(selected).programId))

writeProgram(entry) == Then(writeUnsigned(entry.programId, 8), writeString(entry.name))

WriteSortedPrograms(stable) ==
  Then(writeUnsigned(Len(stable), 2),
       ThenAll([i \in 1..Len(stable) |-> writeProgram(stable[i])]))

writeSelectedPrograms(selected) == WriteSortedPrograms(SortedPrograms(selected))

\* one iteration of writeComponents' loop; an absent customId is -1, an absent
\* customDisplacement or selectedPrograms is the empty sequence
writeComponent(c) ==
  ThenAll(<<writeUnsigned(c.kind, 2),
            writePoint(c.position),
            writeUnsigned(c.rotation, 1),
            writeUnsigned(c.permanentId, 8),
            writeString(c.customString),
            writeUnsigned(c.setting1, 8),
            writeUnsigned(c.setting2, 8),
            writeSigned(c.uiOrder, 2),
            IF c.kind = ComponentKind_Custom
            THEN Then(writeUnsigned(IF c.customId = -1 THEN 0 ELSE c.customId, 8),
                      writePoint(IF c.customDisplacement = <<>> THEN Pt(0, 0)
                                 ELSE c.customDisplacement[1]))
            ELSE IF c.kind \in ProgramKinds THEN writeSelectedPrograms(c.selectedPrograms)
            ELSE Wrote(<<>>)>>)

writeComponents(p) ==
  Then(writeUnsigned(Len(p.components), 8),
       ThenAll([i \in 1..Len(p.components) |-> writeComponent(p.components[i])]))

writeSegment(segment) ==
  IF segment < 0 \/ segment > 255 THEN WriteError("Wire segment must be 0-255")
  ELSE writeUnsigned(segment, 1)

\* one iteration of writeWires' loop; an absent path.end is the empty sequence
writeWire(w) ==
  ThenAll(<<writeUnsigned(w.kind, 1),
            writeUnsigned(w.color, 1),
            writeString(w.comment),
            writePoint(w.path.start),
            IF Len(w.path.body) = 0
            THEN WriteError("Wire body must contain at least one segment byte")
            ELSE ThenAll([i \in 1..Len(w.path.body) |-> writeSegment(w.path.body[i])]),
            IF Len(w.path.body) > 0 /\ w.path.body[Len(w.path.body)] = TELEPORT_WIRE
            THEN (IF w.path.end = <<>> THEN WriteError("Teleport wire requires an end point")
                  ELSE writePoint(w.path.end[1]))
            ELSE Wrote(<<>>)>>)

writeWires(p) ==
  Then(writeUnsigned(Len(p.wires), 8),
       ThenAll([i \in 1..Len(p.wires) |-> writeWire(p.wires[i])]))

----------------------------------------------------------------------------
(* Snappy's block format, as compress writes it and uncompress reads it: the
   length as a varint, then literals and copies *)

RECURSIVE Varint(_)
Varint(n) == IF n < 128 THEN <<n>> ELSE <<128 + (n % 128)>> \o Varint(n \div 128)

\* how many of the bytes from i on repeat the byte before i, up to the longest
\* copy with a one-byte offset (4 to 11 bytes)
RepeatAt(bytes, i) ==
  IF i = 1 THEN 0
  ELSE SetMax({n \in 0..11 :
                 \A j \in 0..(n - 1) : i + j <= Len(bytes) /\ bytes[i + j] = bytes[i - 1]})

\* how many bytes from i on go into one literal: up to the next repeat, and
\* no more than the 60 bytes a tag byte can count
LiteralAt(bytes, i) ==
  SetMin({n \in 1..60 :
            \/ n = 60
            \/ i + n > Len(bytes)
            \/ RepeatAt(bytes, i + n) >= 4})

LiteralElement(bytes, i, n) == <<(n - 1) * 4>> \o SubSeq(bytes, i, i + n - 1)

\* a copy of length len from offset bytes back, offset below 2048
CopyElement(offset, len) == <<1 + (len - 4) * 4 + (offset \div 256) * 32, offset % 256>>

RECURSIVE ElementsFrom(_, _)
ElementsFrom(bytes, i) ==
  IF i > Len(bytes) THEN <<>>
  ELSE LET repeat == RepeatAt(bytes, i)
           literal == LiteralAt(bytes, i)
       IN IF repeat >= 4
          THEN CopyElement(1, repeat) \o ElementsFrom(bytes, i + repeat)
          ELSE LiteralElement(bytes, i, literal) \o ElementsFrom(bytes, i + literal)

compress(bytes) == Varint(Len(bytes)) \o ElementsFrom(bytes, 1)

\* the value of the little-endian bytes stream[pos..pos+n-1]
RECURSIVE LittleEndian(_, _, _)
LittleEndian(stream, pos, n) ==
  IF n = 0 THEN 0 ELSE stream[pos] + 256 * LittleEndian(stream, pos + 1, n - 1)

\* the varint at the head of the stream: [ok, value, next]
RECURSIVE ReadVarint(_, _)
ReadVarint(stream, pos) ==
  IF pos > Len(stream) THEN [ok |-> FALSE, value |-> 0, next |-> pos]
  ELSE IF stream[pos] < 128 THEN [ok |-> TRUE, value |-> stream[pos], next |-> pos + 1]
  ELSE [ok |-> ReadVarint(stream, pos + 1).ok,
        value |-> (stream[pos] % 128) + 128 * ReadVarint(stream, pos + 1).value,
        next |-> ReadVarint(stream, pos + 1).next]

\* out, followed by len bytes read from offset back in it, byte by byte
CopyBack(out, offset, len) ==
  out \o [j \in 1..len |-> out[Len(out) - offset + 1 + ((j - 1) % offset)]]

\* the element at pos: [ok, literal, skip, length, offset, next], where a
\* literal has its bytes at skip..skip+length-1
ElementAt(stream, pos) ==
  LET tag == stream[pos]
      kind == tag % 4
      upper == tag \div 4
      extra == IF kind = 0 THEN (IF upper < 60 THEN 0 ELSE upper - 59)
               ELSE IF kind = 1 THEN 1 ELSE IF kind = 2 THEN 2 ELSE 4
  IN IF pos + extra > Len(stream)
     THEN [ok |-> FALSE, literal |-> FALSE, skip |-> 0, length |-> 0, offset |-> 0, next |-> pos]
     ELSE IF kind = 0
     THEN [ok |-> TRUE, literal |-> TRUE, skip |-> pos + 1 + extra,
           length |-> IF upper < 60 THEN upper + 1
                      ELSE LittleEndian(stream, pos + 1, extra) + 1,
           offset |-> 0, next |-> pos + 1 + extra]
     ELSE IF kind = 1
     THEN [ok |-> TRUE, literal |-> FALSE, skip |-> 0, length |-> 4 + (upper % 8),
           offset |-> (tag \div 32) * 256 + stream[pos + 1], next |-> pos + 2]
     ELSE [ok |-> TRUE, literal |-> FALSE, skip |-> 0, length |-> upper + 1,
           offset |-> LittleEndian(stream, pos + 1, extra), next |-> pos + 1 + extra]

RECURSIVE DecodeFrom(_, _, _)
DecodeElement(stream, e, out) ==
  IF ~e.ok THEN [ok |-> FALSE, bytes |-> <<>>]
  ELSE IF e.literal
  THEN (IF e.skip + e.length - 1 > Len(stream) THEN [ok |-> FALSE, bytes |-> <<>>]
        ELSE DecodeFrom(stream, e.skip + e.length,
                        out \o SubSeq(stream, e.skip, e.skip + e.length - 1)))
  ELSE (IF e.offset = 0 \/ e.offset > Len(out) THEN [ok |-> FALSE, bytes |-> <<>>]
        ELSE DecodeFrom(stream, e.next, CopyBack(out, e.offset, e.length)))

DecodeFrom(stream, pos, out) ==
  IF pos > Len(stream) THEN [ok |-> TRUE, bytes |-> out]
  ELSE DecodeElement(stream, ElementAt(stream, pos), out)

CheckLength(expected, decoded) ==
  IF decoded.ok /\ Len(decoded.bytes) = expected THEN decoded
  ELSE [ok |-> FALSE, bytes |-> <<>>]

UncompressAfter(stream, preamble) ==
  IF ~preamble.ok THEN [ok |-> FALSE, bytes |-> <<>>]
  ELSE CheckLength(preamble.value, DecodeFrom(stream, preamble.next, <<>>))

\* [ok, bytes]: not ok when the stream is no Snappy block
uncompress(stream) == UncompressAfter(stream, ReadVarint(stream, 1))

\* the end of build with the compressed bytes set at offset 0 of the file
BuildFrom_compressedAtZero(sink) ==
  [err |-> sink.err,
   uncompressed |-> sink.bytes,
   saveFile |-> IF sink.err # "none" THEN <<>> ELSE compress(sink.bytes) \o <<0>>]

\* the end of build: the version byte, then the compressed sink
BuildFrom(sink) ==
  [err |-> sink.err,
   uncompressed |-> sink.bytes,
   saveFile |-> IF sink.err # "none" THEN <<>>
                ELSE <<SAVE_FORMAT_VERSION>> \o compress(sink.bytes)]

\* TCSaveWriter.build: [err, saveFile, uncompressed]
build(p) == BuildFrom(ThenAll(<<writeHeader(p), writeComponents(p), writeWires(p)>>))

----------------------------------------------------------------------------
(* Building the save file of one payload *)

MaxSaveComponents == 1
MaxSaveWires == 1

\* defaultComponent
defaultComponent(kind, position, rotation, permanentId) ==
  [kind |-> kind, position |-> position, rotation |-> rotation,
   permanentId |-> permanentId, customString |-> <<>>, setting1 |-> 0, setting2 |-> 0,
   uiOrder |-> 0, customId |-> -1, customDisplacement |-> <<>>, selectedPrograms |-> <<>>]

\* an And as in the writer's test, a Custom instance, a Program with two
\* selected programs out of order, a component whose ui order is negative, and
\* one whose rotation does not fit its byte
SaveComponents ==
  {defaultComponent(5, Pt(0, 0), 1, 123),
   [defaultComponent(ComponentKind_Custom, Pt(-33, 40), 0, 2)
      EXCEPT !.customId = 77, !.customString = <<115, 233>>],
   [defaultComponent(97, Pt(3, -3), 0, 300)
      EXCEPT !.selectedPrograms = <<[programId |-> 9, name |-> <<98>>],
                                    [programId |-> 4, name |-> <<97>>]>>],
   [defaultComponent(5, Pt(1, 1), 0, 1) EXCEPT !.uiOrder = -2],
   defaultComponent(5, Pt(0, 0), 256, 1)}

\* a wire of no length, a routed wire, a teleport wire with its end point, one
\* without, and a wire with no body
SaveWires ==
  {[kind |-> 0, color |-> 0, comment |-> <<>>,
    path |-> [start |-> Pt(0, 0), body |-> <<0>>, end |-> <<>>]],
   [kind |-> 1, color |-> 2, comment |-> <<8364>>,
    path |-> [start |-> Pt(-4, 7), body |-> <<3, 69, 0>>, end |-> <<>>]],
   [kind |-> 0, color |-> 0, comment |-> <<>>,
    path |-> [start |-> Pt(2, 2), body |-> <<TELEPORT_WIRE>>, end |-> <<Pt(9, -9)>>]],
   [kind |-> 0, color |-> 0, comment |-> <<>>,
    path |-> [start |-> Pt(2, 2), body |-> <<TELEPORT_WIRE>>, end |-> <<>>]],
   [kind |-> 0, color |-> 0, comment |-> <<>>,
    path |-> [start |-> Pt(0, 0), body |-> <<>>, end |-> <<>>]]}

\* defaultSavePayload of nothing, the header of the writer's test, and a header
\* with dependencies, player data and text outside ASCII
SaveHeaders ==
  {[saveId |-> 0, hubId |-> 0, gate |-> 0, delay |-> 0, menuVisible |-> FALSE,
    clockSpeed |-> 0, dependencies |-> <<>>, description |-> <<>>,
    cameraPosition |-> Pt(0, 0), synced |-> 0, campaignBound |-> FALSE,
    playerData |-> <<>>, hubDescription |-> <<>>],
   [saveId |-> 1, hubId |-> 2, gate |-> 3, delay |-> 4, menuVisible |-> TRUE,
    clockSpeed |-> 5, dependencies |-> <<>>,
    description |-> <<85, 110, 105, 116, 32, 84, 101, 115, 116>>,
    cameraPosition |-> Pt(10, -4), synced |-> 0, campaignBound |-> FALSE,
    playerData |-> <<>>, hubDescription |-> <<>>],
   [saveId |-> 70000, hubId |-> 0, gate |-> 0, delay |-> 0, menuVisible |-> FALSE,
    clockSpeed |-> 100000, dependencies |-> <<77, 300>>,
    description |-> <<71, 233, 110, 8364>>,
    cameraPosition |-> Pt(-32768, 32767), synced |-> 1, campaignBound |-> TRUE,
    playerData |-> <<0, 255, 7, 7, 7, 7, 7>>, hubDescription |-> <<104>>],
   [saveId |-> 0, hubId |-> 0, gate |-> 0, delay |-> 0, menuVisible |-> FALSE,
    clockSpeed |-> 0, dependencies |-> <<>>, description |-> <<>>,
    cameraPosition |-> Pt(0, 40000), synced |-> 0, campaignBound |-> FALSE,
    playerData |-> <<>>, hubDescription |-> <<>>]}

ListsOf(S, n) == UNION {[1..k -> S] : k \in 0..n}

SavePayloads ==
  {[saveId |-> h.saveId, hubId |-> h.hubId, gate |-> h.gate, delay |-> h.delay,
    menuVisible |-> h.menuVisible, clockSpeed |-> h.clockSpeed,
    dependencies |-> h.dependencies, description |-> h.description,
    cameraPosition |-> h.cameraPosition, synced |-> h.synced,
    campaignBound |-> h.campaignBound, playerData |-> h.playerData,
    hubDescription |-> h.hubDescription, components |-> cs, wires |-> ws] :
     h \in SaveHeaders, cs \in ListsOf(SaveComponents, MaxSaveComponents),
     ws \in ListsOf(SaveWires, MaxSaveWires)}

InitSave ==
  /\ pc = "save"
  /\ components = <<>>
  /\ nets = <<>>
  /\ netOrder = <<>>
  /\ counter = [zero |-> 0, one |-> 0]
  /\ err = "none"
  /\ ports = <<>>
  /\ cells = <<>>
  /\ layout = NoLayout
  /\ payload = NoPayload
  /\ wire = NoWire
  /\ \E p \in SavePayloads : save = [NoSave EXCEPT !.payload = p]
  /\ driver = NoDriver
  /\ binarySink = NoSink
  /\ firstRun = NoRun
  /\ pack = NoPack

\* new TCSaveWriter(payload).build()
BuildSave ==
  /\ pc = "save"
  /\ ~save.built
  /\ LET built == build(save.payload)
     IN save' = [payload |-> save.payload, built |-> TRUE, err |-> built.err,
                 saveFile |-> built.saveFile, uncompressed |-> built.uncompressed]
  /\ UNCHANGED <<pc, components, nets, netOrder, counter, err, ports, cells, layout,
                 payload, wire, driver, binarySink, firstRun, pack>>

NextSave == BuildSave

SpecSave == InitSave /\ [][NextSave]_vars

\* does the value fit an unsigned field of n bytes
FitsUnsigned(value, n) == value >= 0 /\ ShiftBytes(value, n) = 0

FitsPoint(point) == point.x \in -32768..32767 /\ point.y \in -32768..32767

ValidComponent(c) ==
  /\ FitsUnsigned(c.kind, 2) /\ FitsPoint(c.position) /\ FitsUnsigned(c.rotation, 1)
  /\ FitsUnsigned(c.permanentId, 8) /\ FitsUnsigned(c.setting1, 8)
  /\ FitsUnsigned(c.setting2, 8) /\ c.uiOrder \in -32768..32767
  /\ c.kind = ComponentKind_Custom => c.customId >= -1
  /\ \A i \in 1..Len(c.selectedPrograms) : c.selectedPrograms[i].programId >= 0

ValidWire(w) ==
  /\ FitsUnsigned(w.kind, 1) /\ FitsUnsigned(w.color, 1) /\ FitsPoint(w.path.start)
  /\ Len(w.path.body) >= 1
  /\ \A i \in 1..Len(w.path.body) : w.path.body[i] \in 0..255
  /\ w.path.body[Len(w.path.body)] = TELEPORT_WIRE =>
       w.path.end # <<>> /\ FitsPoint(w.path.end[1])

\* every field of the payload is in the range of its type
ValidPayload(p) ==
  /\ FitsUnsigned(p.saveId, 8) /\ FitsUnsigned(p.hubId, 4) /\ FitsUnsigned(p.gate, 8)
  /\ FitsUnsigned(p.delay, 8) /\ FitsUnsigned(p.clockSpeed, 4)
  /\ \A i \in 1..Len(p.dependencies) : p.dependencies[i] >= 0
  /\ FitsPoint(p.cameraPosition) /\ FitsUnsigned(p.synced, 1)
  /\ \A i \in 1..Len(p.playerData) : p.playerData[i] \in 0..255
  /\ \A i \in 1..Len(p.components) : ValidComponent(p.components[i])
  /\ \A i \in 1..Len(p.wires) : ValidWire(p.wires[i])

\* C7: for a payload whose fields are all in range, build does not throw, the
\* first byte of the file is the format version 6, and the bytes after it are a
\* Snappy block that decompresses to exactly the uncompressed bytes returned
\* with the file.
C7_SaveFileIsVersionThenSnappy ==
  (save.built /\ ValidPayload(save.payload)) =>
    /\ save.err = "none"
    /\ Len(save.saveFile) >= 1
    /\ save.saveFile[1] = 6
    /\ uncompress(Tail(save.saveFile)) = [ok |-> TRUE, bytes |-> save.uncompressed]
    /\ Len(save.uncompressed) > 0

\* the payload of the writer's test was built into a file, and so was one with
\* a Custom component and a routed wire
C7_Witness ==
  /\ save.built
  /\ ValidPayload(save.payload)
  /\ save.err = "none"
  /\ Len(save.payload.components) = 1
  /\ Len(save.payload.wires) = 1
  /\ save.payload.wires[1].path.body = <<3, 69, 0>>
  /\ save.payload.components[1].kind = ComponentKind_Custom
  /\ Len(save.saveFile) > 1

----------------------------------------------------------------------------
(***************************************************************************)
(* The hierarchy driver (main).  BigInt values are little-endian byte      *)
(* sequences of nine bytes: every value the driver computes is below 2^72  *)
(* (a hash is masked to 64 bits, a declared id has at most 20 digits).     *)
(***************************************************************************)
BigZero == <<0, 0, 0, 0, 0, 0, 0, 0, 0>>

\* x * m + carry, byte by byte from byte i on
RECURSIVE MulAddFrom(_, _, _, _)
MulAddFrom(x, m, carry, i) ==
  IF i > Len(x) THEN <<>>
  ELSE <<(x[i] * m + carry) % 256>>
       \o MulAddFrom(x, m, (x[i] * m + carry) \div 256, i + 1)

RECURSIVE BigAddFrom(_, _, _, _)
BigAddFrom(x, y, carry, i) ==
  IF i > Len(x) THEN <<>>
  ELSE <<(x[i] + y[i] + carry) % 256>>
       \o BigAddFrom(x, y, (x[i] + y[i] + carry) \div 256, i + 1)

ShiftLimbs(x, k) == [i \in 1..Len(x) |-> IF i > k THEN x[i - k] ELSE 0]

\* x * y, keeping the low Len(x) bytes
RECURSIVE BigMulFrom(_, _, _)
BigMulFrom(x, y, j) ==
  IF j > Len(y) THEN BigZero
  ELSE BigAddFrom(ShiftLimbs(MulAddFrom(x, y[j], 0, 1), j - 1),
                  BigMulFrom(x, y, j + 1), 0, 1)

RECURSIVE BitXor(_, _)
BitXor(a, b) ==
  IF a = 0 /\ b = 0 THEN 0
  ELSE (((a % 2) + (b % 2)) % 2) + 2 * BitXor(a \div 2, b \div 2)

\* hash ^= BigInt(code), for a 16-bit code unit
XorCode(hash, code) ==
  [i \in 1..Len(hash) |->
     IF i = 1 THEN BitXor(hash[1], code % 256)
     ELSE IF i = 2 THEN BitXor(hash[2], code \div 256)
     ELSE hash[i]]

\* hash &= 0xffffffffffffffffn
Mask64(x) == [i \in 1..Len(x) |-> IF i <= 8 THEN x[i] ELSE 0]

\* hash & 0x7fffffffffffffffn
Mask63(x) ==
  [i \in 1..Len(x) |-> IF i < 8 THEN x[i] ELSE IF i = 8 THEN x[8] % 128 ELSE 0]

FNV_OFFSET == <<37, 35, 34, 132, 228, 156, 242, 203, 0>>  \* 0xcbf29ce484222325
FNV_PRIME == <<179, 1, 0, 0, 0, 1, 0, 0, 0>>              \* 0x100000001b3

\* str.charCodeAt(i) of the module names used below
CharCodes ==
  [a |-> <<97>>, b |-> <<98>>, c |-> <<99>>, top |-> <<116, 111, 112>>]

RECURSIVE HashFrom(_, _, _)
HashFrom(hash, codes, i) ==
  IF i > Len(codes) THEN hash
  ELSE HashFrom(Mask64(BigMulFrom(XorCode(hash, codes[i]), FNV_PRIME, 1)),
                codes, i + 1)

hashStringId(str) == Mask63(HashFrom(FNV_OFFSET, CharCodes[str], 1))

\* BigInt(paramMatch[1]): the decimal digits of a declared CUSTOM_ID
RECURSIVE BigOfDigits(_, _)
BigOfDigits(digits, n) ==
  IF n = 0 THEN BigZero
  ELSE MulAddFrom(BigOfDigits(digits, n - 1), 10, digits[n], 1)

Undefined == <<>>

\* one module found by parseModules: its name, its CUSTOM_ID if declared
ParsedModule(decl) ==
  [name |-> decl.name, uses |-> decl.uses,
   customId |-> IF decl.idDigits = <<>> THEN Undefined
                ELSE BigOfDigits(decl.idDigits, Len(decl.idDigits))]

parseModules(source) == [i \in 1..Len(source) |-> ParsedModule(source[i])]

\* the Verilog sources handed to the driver: up to MaxDeps modules besides
\* the top module, in any declaration order, each module instantiating any
\* of the others and declaring a CUSTOM_ID or none
MaxDeps == 2
DepNames == <<"a", "b", "c">>
IdTexts ==
  {<<>>, <<7>>, <<9, 2, 2, 3, 3, 7, 2, 0, 3, 6, 8, 5, 4, 7, 7, 5, 8, 0, 8>>}
DepsUpTo(k) == {DepNames[i] : i \in 1..k}
RECURSIVE DeclarationsOver(_, _)
\* one declaration for each module of todo; a module instantiates any of the
\* others among names, and only a submodule declares a CUSTOM_ID
DeclarationsOver(todo, names) ==
  IF todo = {} THEN {<<>>}
  ELSE LET n == CHOOSE x \in todo : TRUE
       IN {(n :> decl) @@ rest :
             decl \in [name : {n}, uses : SUBSET (names \ {n}),
                       idDigits : IF n = "top" THEN {<<>>} ELSE IdTexts],
             rest \in DeclarationsOver(todo \ {n}, names)}
Declarations(names) == DeclarationsOver(names \cup {"top"}, names)
Orders(names) ==
  {f \in [1..Cardinality(names) -> names] :
     \A i, j \in 1..Cardinality(names) : f[i] = f[j] => i = j}
\* the sources of up to maxDeps submodules
Sources(maxDeps) ==
  UNION {{[i \in 1..(k + 1) |-> decls[f[i]]] :
            decls \in Declarations(DepsUpTo(k)),
            f \in Orders(DepsUpTo(k) \cup {"top"})} : k \in 0..maxDeps}

InitDriver ==
  /\ pc = "driver"
  /\ components = <<>>
  /\ nets = <<>>
  /\ netOrder = <<>>
  /\ counter = [zero |-> 0, one |-> 0]
  /\ err = "none"
  /\ ports = <<>>
  /\ cells = <<>>
  /\ layout = NoLayout
  /\ payload = NoPayload
  /\ wire = NoWire
  /\ save = NoSave
  /\ \E source \in Sources(MaxDeps), usage \in BOOLEAN :
       driver = [NoDriver EXCEPT !.phase = "start", !.usage = usage,
                                 !.top = "top", !.source = source]
  /\ binarySink = NoSink
  /\ firstRun = NoRun
  /\ pack = NoPack

\* modules.filter(m => m.name !== topModuleName).map(...)
RECURSIVE DepsOf(_, _, _)
DepsOf(modules, topModuleName, i) ==
  IF i > Len(modules) THEN <<>>
  ELSE IF modules[i].name = topModuleName THEN DepsOf(modules, topModuleName, i + 1)
  ELSE <<[modules[i] EXCEPT
            !.customId = IF modules[i].customId = Undefined
                         THEN hashStringId(modules[i].name)
                         ELSE modules[i].customId]>>
       \o DepsOf(modules, topModuleName, i + 1)

\* main up to the dependency loop: the usage check, parseModules, deps
StartMain ==
  /\ pc = "driver"
  /\ driver.phase = "start"
  /\ \/ /\ ~driver.usage
        /\ driver' = [driver EXCEPT !.phase = "exited", !.exitCode = 1]
     \/ /\ driver.usage
        /\ driver' = [driver EXCEPT
                        !.phase = "building",
                        !.deps = DepsOf(parseModules(driver.source), driver.top, 1),
                        !.next = 1]
  /\ UNCHANGED <<pc, components, nets, netOrder, counter, err, ports, cells, layout,
                 payload, wire, save, binarySink, firstRun, pack>>

\* one turn of "for (const dep of deps)": convertVerilogToSave of the
\* dependency's own body, then writeFile of its circuit.data; a compile
\* that throws lands in the catch block, which exits with code 1
BuildDependency ==
  /\ pc = "driver"
  /\ driver.phase = "building"
  /\ driver.next <= Len(driver.deps)
  /\ \/ driver' = [driver EXCEPT
                     !.started = Append(@, driver.deps[driver.next].name),
                     !.compiled = Append(@, driver.deps[driver.next].name),
                     !.files = @ \cup {[folder |-> "dependencies",
                                        id |-> driver.deps[driver.next].customId]},
                     !.next = @ + 1]
     \/ driver' = [driver EXCEPT
                     !.started = Append(@, driver.deps[driver.next].name),
                     !.phase = "exited", !.exitCode = 1]
  /\ UNCHANGED <<pc, components, nets, netOrder, counter, err, ports, cells, layout,
                 payload, wire, save, binarySink, firstRun, pack>>

\* "4. Build Top Module": after the loop, convertVerilogToSave of the whole
\* source and writeFile of <topSaveId>/circuit.data, or the catch block
BuildTop ==
  /\ pc = "driver"
  /\ driver.phase = "building"
  /\ driver.next > Len(driver.deps)
  /\ \/ driver' = [driver EXCEPT
                     !.started = Append(@, driver.top),
                     !.compiled = Append(@, driver.top),
                     !.files = @ \cup {[folder |-> "root",
                                        id |-> hashStringId(driver.top)]},
                     !.phase = "exited", !.exitCode = 0]
     \/ driver' = [driver EXCEPT
                     !.started = Append(@, driver.top),
                     !.phase = "exited", !.exitCode = 1]
  /\ UNCHANGED <<pc, components, nets, netOrder, counter, err, ports, cells, layout,
                 payload, wire, save, binarySink, firstRun, pack>>

NextDriver == StartMain \/ BuildDependency \/ BuildTop

SpecDriver == InitDriver /\ [][NextDriver]_vars

\* the modules a declared module instantiates
UsesOf(name) ==
  UNION {IF driver.source[i].name = name THEN driver.source[i].uses ELSE {} :
           i \in 1..Len(driver.source)}

\* the modules reached from names by following instantiations
RECURSIVE UsedWithin(_, _)
UsedWithin(names, steps) ==
  IF steps = 0 THEN names
  ELSE UsedWithin(names \cup UNION {UsesOf(n) : n \in names}, steps - 1)
\* some module instantiates itself, directly or through others
CyclicSource ==
  \E m \in {driver.source[i].name : i \in 1..Len(driver.source)} :
    m \in UsedWithin(UsesOf(m), Len(driver.source))

\* C11: the driver hands a module to the compiler only after every module
\* it instantiates has been compiled, the top module comes last, and a
\* source whose modules instantiate each other in a cycle gets no module
\* compiled
C11_SubmodulesCompiledFirst ==
  /\ \A i \in 1..Len(driver.started) :
       \A u \in UsesOf(driver.started[i]) :
         \E j \in 1..(i - 1) :
           driver.started[j] = u /\ j <= Len(driver.compiled)
  /\ (driver.top \in {driver.started[i] : i \in 1..Len(driver.started)}
        => Len(driver.compiled) >= Len(driver.deps))
  /\ (CyclicSource => driver.compiled = <<>>)

\* C12: a run that exits with a non-zero code has written no circuit.data
C12_NoOutputOnFailure ==
  (driver.phase = "exited" /\ driver.exitCode # 0) => driver.files = {}

\* a 9-byte little-endian number is below 2^63
InRange63(id) == id[9] = 0 /\ id[8] < 128

\* C14: every id assigned to a submodule is below 2^63; it is the declared
\* CUSTOM_ID, or else the masked FNV-1a hash of the module's name
C14_SubmoduleIdsIn63Bits ==
  \A i \in 1..Len(driver.deps) :
    /\ InRange63(driver.deps[i].customId)
    /\ \A k \in 1..Len(driver.source) :
         driver.source[k].name = driver.deps[i].name =>
           driver.deps[i].customId =
             IF driver.source[k].idDigits = <<>>
             THEN hashStringId(driver.deps[i].name)
             ELSE BigOfDigits(driver.source[k].idDigits,
                              Len(driver.source[k].idDigits))

----------------------------------------------------------------------------
(* One write into a BinarySink *)

\* the widest field of the writes below, in bytes
MaxFieldBytes == 2

\* values around the limits of a field of byteCount bytes
FieldValues(byteCount) ==
  (-3..3)
  \cup {s * ((256 ^ byteCount) \div d) + e : s \in {-1, 1}, d \in {1, 2}, e \in -2..2}

\* strings of n copies of one code point, of 1, 2 or 3 bytes in UTF-8
Repeated(cp, n) == <<>> \o [i \in 1..n |-> cp]
SinkStrings ==
  {<<>>, <<97>>, <<233, 97>>, <<8364>>, <<97, 8364, 233>>,
   Repeated(97, 65535), Repeated(97, 65536),
   Repeated(8364, 21845), Repeated(8364, 21846),
   Repeated(233, 32767) \o <<97>>, Repeated(233, 32768)}

SinkRequests ==
  UNION {[op : {"writeUnsigned", "writeSigned"}, byteCount : {n},
          value : FieldValues(n), text : {<<>>}] : n \in 1..MaxFieldBytes}
  \cup [op : {"writeString"}, byteCount : {2}, value : {0}, text : SinkStrings]

InitSink ==
  /\ pc = "sink"
  /\ components = <<>>
  /\ nets = <<>>
  /\ netOrder = <<>>
  /\ counter = [zero |-> 0, one |-> 0]
  /\ err = "none"
  /\ ports = <<>>
  /\ cells = <<>>
  /\ layout = NoLayout
  /\ payload = NoPayload
  /\ wire = NoWire
  /\ save = NoSave
  /\ driver = NoDriver
  /\ \E request \in SinkRequests : binarySink = [NoSink EXCEPT !.request = request]
  /\ firstRun = NoRun
  /\ pack = NoPack

WriteOf(request) ==
  IF request.op = "writeUnsigned" THEN writeUnsigned(request.value, request.byteCount)
  ELSE IF request.op = "writeSigned" THEN writeSigned(request.value, request.byteCount)
  ELSE writeString(request.text)

\* sink.writeUnsigned / writeSigned / writeString on a fresh sink
WriteField ==
  /\ pc = "sink"
  /\ ~binarySink.done
  /\ binarySink' = [request |-> binarySink.request, done |-> TRUE,
                    err |-> WriteOf(binarySink.request).err,
                    bytes |-> WriteOf(binarySink.request).bytes]
  /\ UNCHANGED <<pc, components, nets, netOrder, counter, err, ports, cells, layout,
                 payload, wire, save, driver, firstRun, pack>>

NextSink == WriteField

SpecSink == InitSink /\ [][NextSink]_vars

\* the number of UTF-8 bytes of a string of the basic plane
Utf8Length(text) ==
  Len(text) + Cardinality({i \in 1..Len(text) : text[i] >= 128})
            + Cardinality({i \in 1..Len(text) : text[i] >= 2048})

SinkRejected == binarySink.err # "none" /\ binarySink.bytes = <<>>
SinkWrote(value, byteCount) ==
  /\ binarySink.err = "none"
  /\ Len(binarySink.bytes) = byteCount
  /\ \A i \in 1..byteCount : binarySink.bytes[i] \in 0..255
  /\ LittleEndian(binarySink.bytes, 1, byteCount) = value

\* C15: a write of an unsigned value that is negative or too wide, of a
\* signed value outside the two's-complement range, or of a string of more
\* than 65535 UTF-8 bytes ends in an error and leaves nothing to return;
\* any other value is written little-endian in exactly its byte count
\* (a signed value as two's complement, a string behind its 2-byte length)
C15_SinkRejectsOrWritesLittleEndian ==
  binarySink.done =>
    IF binarySink.request.op = "writeUnsigned"
    THEN IF \/ binarySink.request.value < 0
            \/ binarySink.request.value >= 256 ^ binarySink.request.byteCount
         THEN SinkRejected
         ELSE SinkWrote(binarySink.request.value, binarySink.request.byteCount)
    ELSE IF binarySink.request.op = "writeSigned"
    THEN IF \/ 2 * binarySink.request.value < -(256 ^ binarySink.request.byteCount)
            \/ 2 * binarySink.request.value >= 256 ^ binarySink.request.byteCount
         THEN SinkRejected
         ELSE SinkWrote(IF binarySink.request.value < 0
                        THEN binarySink.request.value + 256 ^ binarySink.request.byteCount
                        ELSE binarySink.request.value,
                        binarySink.request.byteCount)
    ELSE IF Utf8Length(binarySink.request.text) > 65535
         THEN SinkRejected
         ELSE /\ binarySink.err = "none"
              /\ Len(binarySink.bytes) = 2 + Utf8Length(binarySink.request.text)
              /\ LittleEndian(binarySink.bytes, 1, 2) = Utf8Length(binarySink.request.text)

\* a string of 65536 UTF-8 bytes was handed to writeString and rejected
C15_Witness ==
  /\ binarySink.done
  /\ binarySink.request.op = "writeString"
  /\ Utf8Length(binarySink.request.text) = 65536
  /\ binarySink.err # "none"

----------------------------------------------------------------------------
(* toTcComponents on a netlist and a layout of its components *)

\* the longest component list handed to toTcComponents below
MaxPlaced == 2
PlacedTemplates == {"INPUT_1", "AND_1", "CUSTOM_GENERIC", "OUTPUT_1"}
PlacedXs == {-7, 0, 12}
PlacedYs == {-3, 4}

\* per component: its template, where the layout put it, and whether the
\* layout has a node for it at all
PlacedLists ==
  UNION {[1..n -> [template : PlacedTemplates, x : PlacedXs, y : PlacedYs,
                   placed : BOOLEAN]] : n \in 1..MaxPlaced}

PlacedComponents(list) ==
  [i \in 1..Len(list) |-> instantiate(list[i].template, CompId(CellNames[i], ":0"))]

RECURSIVE PlacedNodesFrom(_, _)
PlacedNodesFrom(list, i) ==
  IF i > Len(list) THEN <<>>
  ELSE (IF list[i].placed
        THEN <<[id |-> PlacedComponents(list)[i].id, x |-> list[i].x, y |-> list[i].y,
                width |-> buildNode(PlacedComponents(list)[i]).width,
                height |-> buildNode(PlacedComponents(list)[i]).height]>>
        ELSE <<>>)
       \o PlacedNodesFrom(list, i + 1)

InitComponents ==
  /\ pc = "layout"
  /\ \E list \in PlacedLists :
       /\ components = PlacedComponents(list)
       /\ layout = [nodes |-> PlacedNodesFrom(list, 1), edges |-> <<>>]
  /\ nets = <<>>
  /\ netOrder = <<>>
  /\ counter = [zero |-> 0, one |-> 0]
  /\ err = "none"
  /\ ports = <<>>
  /\ cells = <<>>
  /\ payload = NoPayload
  /\ wire = NoWire
  /\ save = NoSave
  /\ driver = NoDriver
  /\ binarySink = NoSink
  /\ firstRun = NoRun
  /\ pack = NoPack

\* const components = toTcComponents(layout, netlist)
ToTcComponents ==
  /\ pc = "layout"
  /\ payload' = [NoPayload EXCEPT
                   !.built = toTcComponents(layout, components).err = "none",
                   !.components = toTcComponents(layout, components).components]
  /\ err' = toTcComponents(layout, components).err
  /\ pc' = IF payload'.built THEN "components" ELSE "failed"
  /\ UNCHANGED <<components, nets, netOrder, counter, ports, cells, layout, wire, save,
                 driver, binarySink, firstRun, pack>>

NextComponents == ToTcComponents

SpecComponents == InitComponents /\ [][NextComponents]_vars

\* the layout's node of the i-th component
PlacedNode(i) ==
  layout.nodes[CHOOSE k \in 1..Len(layout.nodes) : layout.nodes[k].id = components[i].id]

\* C16: every component record is placed at its layout node's position
\* minus the origin (minX, minY) of its template's bounds, and 32 further
\* up and left on both axes exactly when its kind is Custom
C16_PositionIsPlacementMinusOrigin ==
  pc = "components" =>
    /\ Len(payload.components) = Len(components)
    /\ \A i \in 1..Len(components) :
         /\ payload.components[i].position.x =
              PlacedNode(i).x - TemplateBounds(components[i].template).minX
                - (IF payload.components[i].kind = "Custom" THEN 32 ELSE 0)
         /\ payload.components[i].position.y =
              PlacedNode(i).y - TemplateBounds(components[i].template).minY
                - (IF payload.components[i].kind = "Custom" THEN 32 ELSE 0)

\* a Custom component placed at (12, 4) is written at (12 + 2 - 32,
\* 4 + 1 - 32), next to an And placed at (0, -3) and written at (1, -2)
C16_Witness ==
  /\ pc = "components"
  /\ Len(components) = 2
  /\ components[1].template = "CUSTOM_GENERIC"
  /\ components[2].template = "AND_1"
  /\ payload.components[1].kind = "Custom"
  /\ payload.components[1].position = Pt(-18, -27)
  /\ payload.components[2].position = Pt(1, -2)

----------------------------------------------------------------------------
(* centerLayout applied twice to a layout with integer coordinates *)

\* the most nodes of the layouts centered below, which have one edge or none
MaxCenterNodes == 2
CenterNodes ==
  [id : {CompId("n", ":0")}, x : {-4, 0, 5}, y : {-2, 3}, width : {2, 3}, height : {1}]
CenterPoints == {Pt(-6, 1), Pt(0, 0), Pt(9, 4)}
CenterEdges == [id : {<<"e">>}, points : [1..2 -> CenterPoints]]
CenterLayouts ==
  UNION {[nodes : [1..n -> CenterNodes], edges : [1..m -> CenterEdges]] :
           n \in 0..MaxCenterNodes, m \in {0, 1}}

InitCenter ==
  /\ pc = "uncentered"
  /\ layout \in CenterLayouts
  /\ components = <<>>
  /\ nets = <<>>
  /\ netOrder = <<>>
  /\ counter = [zero |-> 0, one |-> 0]
  /\ err = "none"
  /\ ports = <<>>
  /\ cells = <<>>
  /\ payload = NoPayload
  /\ wire = NoWire
  /\ save = NoSave
  /\ driver = NoDriver
  /\ binarySink = NoSink
  /\ firstRun = NoRun
  /\ pack = NoPack

\* centerLayout(layout), and centerLayout(layout) once more
CenterLayout ==
  /\ pc \in {"uncentered", "centered"}
  /\ layout' = centerLayout(layout)
  /\ pc' = IF pc = "uncentered" THEN "centered" ELSE "centeredTwice"
  /\ UNCHANGED <<components, nets, netOrder, counter, err, ports, cells, payload, wire,
                 save, driver, binarySink, firstRun, pack>>

NextCenter == CenterLayout

SpecCenter == InitCenter /\ [][NextCenter]_vars

\* every node and every edge point of the next layout is where it is now,
\* moved by (dx, dy)
MovedBy(dx, dy) ==
  /\ Len(layout'.nodes) = Len(layout.nodes)
  /\ Len(layout'.edges) = Len(layout.edges)
  /\ \A i \in 1..Len(layout.nodes) :
       /\ layout'.nodes[i].x = layout.nodes[i].x + dx
       /\ layout'.nodes[i].y = layout.nodes[i].y + dy
  /\ \A k \in 1..Len(layout.edges) :
       /\ Len(layout'.edges[k].points) = Len(layout.edges[k].points)
       /\ \A j \in 1..Len(layout.edges[k].points) :
            /\ layout'.edges[k].points[j].x = layout.edges[k].points[j].x + dx
            /\ layout'.edges[k].points[j].y = layout.edges[k].points[j].y + dy

\* C18: one application of centerLayout moves all nodes and all edge points
\* by one integer offset, and an application to a centered layout moves
\* nothing, also when the center of the bounding box is a half-integer
C18_CenteringIsIdempotent ==
  [][/\ pc = "uncentered" => \E dx, dy \in -20..20 : MovedBy(dx, dy)
     /\ pc = "centered" => MovedBy(0, 0)]_vars

\* a node 3 wide that stood at x = 0 (center 1.5), with an edge along its
\* left side, was centered twice: the node stands at x = -1, its center at 0.5
C18_Witness ==
  /\ pc = "centeredTwice"
  /\ Len(layout.nodes) = 1
  /\ Len(layout.edges) = 1
  /\ layout.nodes[1].width = 3
  /\ layout.nodes[1].x = -1
  /\ layout.edges[1].points[1].x = -1
  /\ layout.edges[1].points[2].x = -1

----------------------------------------------------------------------------
(* The compile in compact mode: the layout is not aligned, and the wires   *)
(* are teleport wires made from the nets                                   *)

createTeleportWire(start, end, kind) ==
  [kind |-> kind, color |-> "Default", comment |-> "", start |-> start,
   body |-> <<TELEPORT_WIRE>>, end |-> end]

\* the inner loop over net.sinks[j..]: a sink whose port position cannot be
\* found is skipped (catch(e) {})
RECURSIVE TeleportWiresOfSinks(_, _, _, _, _, _)
TeleportWiresOfSinks(lay, cs, sinks, start, kind, j) ==
  IF j > Len(sinks) THEN <<>>
  ELSE (IF findPortPosition(lay, cs, sinks[j].componentId, sinks[j].portId).err # "none"
        THEN <<>>
        ELSE <<createTeleportWire(
                 start,
                 findPortPosition(lay, cs, sinks[j].componentId, sinks[j].portId).point,
                 kind)>>)
       \o TeleportWiresOfSinks(lay, cs, sinks, start, kind, j + 1)

\* one turn of the loop over netlist.nets.values()
TeleportWiresOfNet(lay, cs, net) ==
  IF net.source = NoRef THEN <<>>
  ELSE IF ~HasComponent(cs, net.source.componentId) THEN <<>>
  ELSE IF findPortPosition(lay, cs, net.source.componentId, net.source.portId).err # "none"
  THEN <<>>
  ELSE TeleportWiresOfSinks(
         lay, cs, net.sinks,
         findPortPosition(lay, cs, net.source.componentId, net.source.portId).point,
         widthToWireKind(getPortWidth(cs[FindIndex(cs, net.source.componentId)],
                                      net.source.portId)),
         1)

RECURSIVE TeleportWiresFrom(_, _, _, _, _)
TeleportWiresFrom(lay, cs, ns, ord, k) ==
  IF k > Len(ord) THEN <<>>
  ELSE TeleportWiresOfNet(lay, cs, ns[ord[k]])
       \o TeleportWiresFrom(lay, cs, ns, ord, k + 1)

\* createPayload with compact = true: [err, payload]
CompactPayloadOf(comps, ws) ==
  IF comps.err # "none" THEN [err |-> comps.err, payload |-> NoPayload]
  ELSE [err |-> "none",
        payload |-> [PayloadOf(comps, [err |-> "none", wires |-> <<>>]).payload
                       EXCEPT !.wires = ws]]

createPayloadCompact(lay, cs, ns, ord) ==
  CompactPayloadOf(toTcComponents(lay, cs), TeleportWiresFrom(lay, cs, ns, ord, 1))

\* buildLayoutGraph, router.route and centerLayout; alignIOComponents is
\* skipped in compact mode
RouteCompact ==
  /\ pc = "optimized"
  /\ \/ /\ Dangling(buildLayoutGraph(components, nets, netOrder), components)
        /\ pc' = "failed"
        /\ err' = "layout engine error"
        /\ UNCHANGED layout
     \/ \E style \in ElkStyles :
          /\ layout' = centerLayout(fromElkGraph(
                         ElkLayered(buildLayoutGraph(components, nets, netOrder),
                                    components, style)))
          /\ pc' = "routedCompact"
          /\ UNCHANGED err
  /\ UNCHANGED <<components, nets, netOrder, counter, ports, cells, payload, wire, save,
                 driver, binarySink, firstRun, pack>>

\* createPayload(layout, netlist, description, saveId, true)
CreatePayloadCompact ==
  /\ pc = "routedCompact"
  /\ payload' = createPayloadCompact(layout, components, nets, netOrder).payload
  /\ err' = createPayloadCompact(layout, components, nets, netOrder).err
  /\ pc' = IF payload'.built THEN "payloadCompact" ELSE "failed"
  /\ UNCHANGED <<components, nets, netOrder, counter, ports, cells, layout, wire, save,
                 driver, binarySink, firstRun, pack>>

NextCompact ==
  \/ ProcessInputPort
  \/ ProcessCell
  \/ ProcessOutputPort
  \/ FinishLowering
  \/ OptimizeNetlist
  \/ RouteCompact
  \/ CreatePayloadCompact

SpecCompact == Init /\ [][NextCompact]_vars

\* the (net, sink index) pairs of the nets that have a driver, in the
\* order of the nets and of their sinks
RECURSIVE DrivenSinksFrom(_)
DrivenSinksFrom(k) ==
  IF k > Len(netOrder) THEN <<>>
  ELSE (IF nets[netOrder[k]].source = NoRef THEN <<>>
        ELSE [j \in 1..Len(nets[netOrder[k]].sinks) |-> [net |-> netOrder[k], sink |-> j]])
       \o DrivenSinksFrom(k + 1)

\* C13: the payload of a compact compile has one wire for each (driver,
\* sink) pair of each driven net and no other; the wire's body is the
\* teleport marker alone, it starts at the driver port's position and its
\* end point is the sink port's position
C13_TeleportWirePerPair ==
  pc = "payloadCompact" =>
    /\ Len(payload.wires) = Len(DrivenSinksFrom(1))
    /\ \A i \in 1..Len(DrivenSinksFrom(1)) :
         /\ i <= Len(payload.wires)
         /\ payload.wires[i].body = <<TELEPORT_WIRE>>
         /\ HasNode(layout, nets[DrivenSinksFrom(1)[i].net].source.componentId)
         /\ payload.wires[i].start = PortPosition(nets[DrivenSinksFrom(1)[i].net].source)
         /\ HasNode(layout, nets[DrivenSinksFrom(1)[i].net].sinks[DrivenSinksFrom(1)[i].sink].componentId)
         /\ payload.wires[i].end =
              PortPosition(nets[DrivenSinksFrom(1)[i].net].sinks[DrivenSinksFrom(1)[i].sink])

\* the same, for netlists in which every net names components that exist
C13_HoldsWithoutDanglingRefs ==
  ~Dangling(buildLayoutGraph(components, nets, netOrder), components)
    => C13_TeleportWirePerPair

----------------------------------------------------------------------------
(* Two compiles of one module in one process *)

\* the synthesizer JSON of a module: all the input ports, one output port
\* or none, and cells that are gates (one of them fed a constant),
\* multiplexers, a flip-flop or an instance of another module
RepeatCells(k) ==
  {Gate("$and", Bit(2), Bit(3), CellBit(k)), Gate("$and", Lit("0"), Bit(3), CellBit(k)),
   Mux(Bit(2), Bit(3), Bit(4), CellBit(k)), Mux(Lit("1"), Bit(3), Bit(4), CellBit(k)),
   Dff(Bit(4), Bit(2), CellBit(k), 1), Instance("sub", Bit(2), CellBit(k))}
RECURSIVE CellLists(_)
CellLists(n) ==
  IF n = 0 THEN {<<>>}
  ELSE CellLists(n - 1)
       \cup {Append(cs, [name |-> CellNames[n], cell |-> c]) :
               cs \in {l \in CellLists(n - 1) : Len(l) = n - 1}, c \in RepeatCells(n)}
InputPorts(n) ==
  [k \in 1..n |-> [name |-> InputNames[k], direction |-> "input", bits |-> <<InputBit(k)>>]]
OutputPortLists ==
  {<<>>} \cup {<<[name |-> OutputNames[1], direction |-> "output", bits |-> <<b>>]>> :
                 b \in OutputBits}
SynthesizedModules ==
  {[ports |-> InputPorts(MaxInputs) \o outs, cells |-> cs] :
     outs \in OutputPortLists, cs \in CellLists(MaxCells)}

\* the layout engine of a compile: how it draws an edge, and whether it
\* rejects a graph with an edge to a node it was not given
Engines ==
  [style : ElkStyles, rejects : {FALSE}] \cup [style : {"straight"}, rejects : {TRUE}]

\* buildNetlistFromYosys' own state, with the components of the previous
\* call still in the list
FreshGraph_keepsComponents(previous) ==
  Graph(previous.components, <<>>, <<>>, [zero |-> 0, one |-> 0], "none")

\* buildNetlistFromYosys' own state: counter, components, nets are created
\* by each call
FreshGraph(previous) == Graph(<<>>, <<>>, <<>>, [zero |-> 0, one |-> 0], "none")

\* the three loops of buildNetlistFromYosys, from entry k on
RECURSIVE LowerInputsFrom(_, _, _)
LowerInputsFrom(g, ps, k) ==
  IF k > Len(ps) \/ g.err # "none" THEN g
  ELSE LowerInputsFrom(IF ps[k].direction = "input"
                       THEN LowerInputPort(g, ps[k].name, ps[k].bits[1]) ELSE g,
                       ps, k + 1)

RECURSIVE LowerCellsFrom(_, _, _)
LowerCellsFrom(g, cs, k) ==
  IF k > Len(cs) \/ g.err # "none" THEN g
  ELSE LowerCellsFrom(LowerCell(g, cs[k].name, cs[k].cell), cs, k + 1)

RECURSIVE LowerOutputsFrom(_, _, _)
LowerOutputsFrom(g, ps, k) ==
  IF k > Len(ps) \/ g.err # "none" THEN g
  ELSE LowerOutputsFrom(IF ps[k].direction = "output"
                        THEN LowerOutputPort(g, ps[k].name, ps[k].bits[1]) ELSE g,
                        ps, k + 1)

buildNetlistFromYosys(previous, module) ==
  FinishNetlist(
    LowerOutputsFrom(
      LowerCellsFrom(LowerInputsFrom(FreshGraph(previous), module.ports, 1),
                     module.cells, 1),
      module.ports, 1))

\* optimizeNetlist on the netlist of a lowering that did not throw
OptimizedGraph(g) ==
  IF g.err # "none" THEN g
  ELSE Graph(optimizeNetlist(g.components, g.nets, g.order).components,
             optimizeNetlist(g.components, g.nets, g.order).nets,
             optimizeNetlist(g.components, g.nets, g.order).order,
             g.counter, "none")

\* buildLayoutGraph, router.route, alignIOComponents unless compact,
\* centerLayout: [err, layout]
LayoutOfGraph(g, graph, engine, compact) ==
  IF g.err # "none" THEN [err |-> g.err, layout |-> NoLayout]
  ELSE IF engine.rejects /\ Dangling(graph, g.components)
  THEN [err |-> "layout engine error", layout |-> NoLayout]
  ELSE [err |-> "none",
        layout |-> IF compact
                   THEN centerLayout(fromElkGraph(ElkLayered(graph, g.components, engine.style)))
                   ELSE Routed(ElkLayered(graph, g.components, engine.style), g.components)]

\* createPayload: [err, payload]
PayloadOfLayout(g, lay, compact) ==
  IF lay.err # "none" THEN [err |-> lay.err, payload |-> NoPayload]
  ELSE IF compact THEN createPayloadCompact(lay.layout, g.components, g.nets, g.order)
  ELSE createPayload(lay.layout, g.components)

\* convertVerilogToSave after the synthesis, on the netlist g
ConvertNetlist(g, engine, compact) ==
  PayloadOfLayout(
    g, LayoutOfGraph(g, buildLayoutGraph(g.components, g.nets, g.order), engine, compact),
    compact)

InitTwice ==
  /\ pc = "first"
  /\ \E module \in SynthesizedModules :
       /\ ports = module.ports
       /\ cells = module.cells
  /\ \E engine \in Engines, compact \in BOOLEAN :
       firstRun = [done |-> FALSE, err |-> "none", payload |-> NoPayload,
                   engine |-> engine, compact |-> compact]
  /\ components = <<>>
  /\ nets = <<>>
  /\ netOrder = <<>>
  /\ counter = [zero |-> 0, one |-> 0]
  /\ err = "none"
  /\ layout = NoLayout
  /\ payload = NoPayload
  /\ wire = NoWire
  /\ save = NoSave
  /\ driver = NoDriver
  /\ binarySink = NoSink
  /\ pack = NoPack

\* the netlist a compile leaves behind and the payload it returns
CompileTo(g, result, next) ==
  /\ components' = g.components
  /\ nets' = g.nets
  /\ netOrder' = g.order
  /\ counter' = g.counter
  /\ err' = result.err
  /\ payload' = result.payload
  /\ pc' = next

\* convertVerilogToSave, the first time and, with the same JSON and the
\* same engine, a second time
Compile ==
  /\ pc \in {"first", "second"}
  /\ CompileTo(OptimizedGraph(buildNetlistFromYosys(CurGraph, [ports |-> ports, cells |-> cells])),
               ConvertNetlist(
                 OptimizedGraph(buildNetlistFromYosys(CurGraph, [ports |-> ports, cells |-> cells])),
                 firstRun.engine, firstRun.compact),
               IF pc = "first" THEN "second" ELSE "twice")
  /\ firstRun' = IF pc = "first"
                 THEN [firstRun EXCEPT !.done = TRUE, !.err = err', !.payload = payload']
                 ELSE firstRun
  /\ UNCHANGED <<ports, cells, layout, wire, save, driver, binarySink, pack>>

NextTwice == Compile

SpecTwice == InitTwice /\ [][NextTwice]_vars

\* C19: a second compile of the same synthesizer JSON with the same layout
\* engine, in the process that ran the first, ends as the first did: with
\* the same error, or with the same payload
C19_SecondCompileRepeatsFirst ==
  pc = "twice" => (err = firstRun.err /\ payload = firstRun.payload)

\* y = s ? b : a was compiled twice by an engine that accepts every graph,
\* and both compiles returned its payload
C19_Witness ==
  /\ pc = "twice"
  /\ IsMuxModule
  /\ firstRun.payload.built
  /\ Len(firstRun.payload.components) = 6
  /\ Len(payload.components) = 6

----------------------------------------------------------------------------
(* Packing bits into a bus (packBits, unpackBits; adapter.ts) *)

\* idGen.next(): `gen_c${compCounter++}`
GenNames ==
  <<"gen_c0", "gen_c1", "gen_c2", "gen_c3", "gen_c4", "gen_c5", "gen_c6", "gen_c7",
    "gen_c8", "gen_c9", "gen_c10", "gen_c11", "gen_c12", "gen_c13", "gen_c14", "gen_c15",
    "gen_c16", "gen_c17", "gen_c18", "gen_c19", "gen_c20", "gen_c21", "gen_c22", "gen_c23">>
GenId(n) == CompId(GenNames[n + 1], "")

\* `${i}` for a maker's pad index
IndexText(i) == <<"0", "1", "2", "3", "4", "5", "6", "7">>[i + 1]

\* `INPUT_${size}`, `SPLITTER_${size}`, `MAKER_${size}`, `CONST_${size}`
InputTemplate(size) ==
  CASE size = 8 -> "INPUT_8" [] size = 16 -> "INPUT_16"
    [] size = 32 -> "INPUT_32" [] size = 64 -> "INPUT_64"
SplitterTemplate(size) ==
  CASE size = 8 -> "SPLITTER_8" [] size = 16 -> "SPLITTER_16"
    [] size = 32 -> "SPLITTER_32" [] size = 64 -> "SPLITTER_64"
MakerTemplate(size) ==
  CASE size = 8 -> "MAKER_8" [] size = 16 -> "MAKER_16"
    [] size = 32 -> "MAKER_32" [] size = 64 -> "MAKER_64"
ConstTemplate(size) ==
  CASE size = 8 -> "CONST_8" [] size = 16 -> "CONST_16"
    [] size = 32 -> "CONST_32" [] size = 64 -> "CONST_64"

\* parseInt(template.id.split("_")[1])
TemplateSize(t) ==
  CASE t \in {"SPLITTER_8", "MAKER_8", "CONST_8", "INPUT_8"} -> 8
    [] t \in {"SPLITTER_16", "MAKER_16", "CONST_16", "INPUT_16"} -> 16
    [] t \in {"SPLITTER_32", "MAKER_32", "CONST_32", "INPUT_32"} -> 32
    [] t \in {"SPLITTER_64", "MAKER_64", "CONST_64", "INPUT_64"} -> 64
    [] OTHER -> 1

\* what packBits and unpackBits work on and leave: the graph, the id
\* generator's counter, and the bus packBits returned
PackState(g, n, bus) == [g |-> g, compCounter |-> n, bus |-> bus]

RECURSIVE NormalizeBits(_, _)
\* bits.map((b) => normalizeBit(b, counter)): the bit infos, and the counter after
NormalizeBits(bits, ctr) ==
  IF bits = <<>> THEN [infos |-> <<>>, counter |-> ctr]
  ELSE LET head == normalizeBit(Head(bits), ctr)
           rest == NormalizeBits(Tail(bits), head.counter)
       IN [infos |-> <<[id |-> head.id, constant |-> head.constant]>> \o rest.infos,
           counter |-> rest.counter]

RECURSIVE SplitterOutputsFrom(_, _, _, _)
\* "Connect Outputs to the target bits" of the standard splitter, from bit i on
SplitterOutputsFrom(g, splitterId, targetBits, i) ==
  IF i >= Len(targetBits) \/ g.err # "none" THEN g
  ELSE IF targetBits[i + 1].constant # "none" THEN Throw(g, "Cannot assign to constant")
  ELSE LET bitId == targetBits[i + 1].id
           g1 == Connect(g, splitterId, OutName(i), bitId)
       IN SplitterOutputsFrom(registerSource(g1, bitId, PortRef(splitterId, OutName(i))),
                              splitterId, targetBits, i + 1)

RECURSIVE unpackBits(_, _, _, _)
RECURSIVE UnpackChunksFrom(_, _, _, _, _)
\* the chunk loop of the hierarchical splitter, from chunk i on
UnpackChunksFrom(st, splitterId, targetBits, chunks, i) ==
  IF i >= chunks \/ st.g.err # "none" THEN st
  ELSE LET subBusId == NetId("_out", splitterId.base, i)
           g1 == Connect(st.g, splitterId, OutName(i), subBusId)
           g2 == registerSource(g1, subBusId, PortRef(splitterId, OutName(i)))
           start == i * 8
           end == Min2((i + 1) * 8, Len(targetBits))
           st1 == [st EXCEPT !.g = g2]
       IN UnpackChunksFrom(IF start < Len(targetBits)
                           THEN unpackBits(st1, subBusId, SubSeq(targetBits, start + 1, end), 8)
                           ELSE st1,
                           splitterId, targetBits, chunks, i + 1)

unpackBits(st, busId, targetBits, targetSize) ==
  IF st.g.err # "none" THEN st
  ELSE IF targetSize = 1 /\ Len(targetBits) = 1
  THEN [st EXCEPT !.g = unpackBits1(st.g, busId, targetBits[1])]
  ELSE IF targetSize \notin {8, 16, 32, 64}
  THEN [st EXCEPT !.g = Throw(st.g, "Unknown component template"),
                  !.compCounter = @ + 1]
  ELSE LET splitterId == GenId(st.compCounter)
           g1 == Push(st.g, instantiate(SplitterTemplate(targetSize), splitterId))
           g2 == registerSink(Connect(g1, splitterId, "in", busId), busId,
                              PortRef(splitterId, "in"))
           st1 == [st EXCEPT !.g = g2, !.compCounter = @ + 1]
       IN IF targetSize > 8
          THEN UnpackChunksFrom(st1, splitterId, targetBits, targetSize \div 8, 0)
          ELSE [st1 EXCEPT !.g = SplitterOutputsFrom(g2, splitterId, targetBits, 0)]

\* the multi-bit branch of the loop over the module's input ports
LowerInputBus(st, portName, portBits) ==
  LET size == resolveSize(Len(portBits))
      componentId == CompId(portName, "in:")
      inst == [instantiate(InputTemplate(size), componentId) EXCEPT !.label = portName]
      normalized == NormalizeBits(portBits, st.g.counter)
      busId == NetId("in:_bus", portName, 0)
      g1 == [Push(st.g, inst) EXCEPT !.counter = normalized.counter]
      g2 == registerSource(Connect(g1, componentId, "out", busId), busId,
                           PortRef(componentId, "out"))
  IN unpackBits([st EXCEPT !.g = g2], busId, normalized.infos, size)

\* packBits step 1: the bus of the splitter that drives all the bits in
\* order, or NoNet when the bits do not come from such a splitter
SplitterBusOf(g, bits, targetSize) ==
  LET firstDriver == GetNet(g.nets, bits[1].id).source
      k == FindIndex(g.components, firstDriver.componentId)
  IN IF firstDriver = NoRef \/ k = 0 THEN NoNet
     ELSE IF ~IsSplitter(g.components[k].template) THEN NoNet
     ELSE IF TemplateSize(g.components[k].template) # targetSize
             \/ Len(bits) > targetSize \/ targetSize > 8 THEN NoNet
     ELSE IF \E i \in 0..(Len(bits) - 1) :
               GetNet(g.nets, bits[i + 1].id).source
                 # PortRef(firstDriver.componentId, OutName(i)) THEN NoNet
     ELSE IF "in" \in DOMAIN g.components[k].connections
     THEN g.components[k].connections["in"]
     ELSE NoNet

RECURSIVE ConstValue(_, _)
\* packBits step 1b: constValue |= 1n << BigInt(i), from bit i on
ConstValue(bits, i) ==
  IF i >= Len(bits) THEN 0
  ELSE (IF bits[i + 1].constant = "1" THEN 2 ^ i ELSE 0) + ConstValue(bits, i + 1)

\* the bit a short chunk is filled with: normalizeBit("0", { zero: 0, one: 0 })
PadBit ==
  LET b == normalizeBit(Lit("0"), [zero |-> 0, one |-> 0])
  IN [id |-> b.id, constant |-> b.constant]

\* chunk i of the hierarchical maker
ChunkBits(bits, i) ==
  [j \in 1..8 |-> IF i * 8 + j <= Len(bits) THEN bits[i * 8 + j] ELSE PadBit]

RECURSIVE MakerInputsFrom(_, _, _, _, _)
\* packBits step 3, "Connect bits", from input i on
MakerInputsFrom(g, makerId, bits, targetSize, i) ==
  IF i >= targetSize \/ g.err # "none" THEN g
  ELSE LET given == i < Len(bits)
           constId == [makerId EXCEPT !.port = "pad", !.sfx = IndexText(i)]
           bitId == IF given THEN bits[i + 1].id ELSE NetId("__pad_0", makerId.base, i)
           g1 == IF given THEN ensureDriverIfConstant(g, bits[i + 1], makerId, InName(i))
                 ELSE registerSource(
                        Connect(Push(g, instantiate("CONST_0", constId)), constId, "out", bitId),
                        bitId, PortRef(constId, "out"))
           g2 == registerSink(Connect(g1, makerId, InName(i), bitId), bitId,
                              PortRef(makerId, InName(i)))
       IN MakerInputsFrom(g2, makerId, bits, targetSize, i + 1)

RECURSIVE packBits(_, _, _)
RECURSIVE PackChunksFrom(_, _, _, _, _)
\* packBits step 2, the chunk loop of the hierarchical maker, from chunk i on
PackChunksFrom(st, makerId, bits, chunks, i) ==
  IF i >= chunks \/ st.g.err # "none" THEN st
  ELSE LET st1 == packBits(st, ChunkBits(bits, i), 8)
           g1 == Connect(st1.g, makerId, InName(i), st1.bus)
           g2 == registerSink(g1, st1.bus, PortRef(makerId, InName(i)))
       IN PackChunksFrom([st1 EXCEPT !.g = g2], makerId, bits, chunks, i + 1)

packBits(st, bits, targetSize) ==
  IF st.g.err # "none" THEN st
  ELSE IF targetSize = 1 /\ Len(bits) >= 1 THEN [st EXCEPT !.bus = bits[1].id]
  ELSE IF SplitterBusOf(st.g, bits, targetSize) # NoNet
  THEN [st EXCEPT !.bus = SplitterBusOf(st.g, bits, targetSize)]
  ELSE IF (\A i \in 1..Len(bits) : bits[i].constant # "none") /\ Len(bits) <= targetSize
  THEN LET constId == GenId(st.compCounter)
           inst == [instantiate(ConstTemplate(targetSize), constId)
                      EXCEPT !.setting1 = ConstValue(bits, 0)]
           busId == NetId("_val", constId.base, 0)
           g1 == Connect(Push(st.g, inst), constId, "out", busId)
       IN PackState(registerSource(g1, busId, PortRef(constId, "out")),
                    st.compCounter + 1, busId)
  ELSE LET makerId == GenId(st.compCounter)
           g1 == Push(st.g, instantiate(MakerTemplate(targetSize), makerId))
           st1 == [st EXCEPT !.g = g1, !.compCounter = @ + 1]
           st2 == IF targetSize > 8
                  THEN PackChunksFrom(st1, makerId, bits, targetSize \div 8, 0)
                  ELSE [st1 EXCEPT !.g = MakerInputsFrom(g1, makerId, bits, targetSize, 0)]
           busId == NetId("_bus", makerId.base, 0)
           g3 == registerSource(Connect(st2.g, makerId, "out", busId), busId,
                                PortRef(makerId, "out"))
       IN [st2 EXCEPT !.g = g3, !.bus = busId]

\* the widest module port whose bits are packed
MaxPackWidth == 9

PackKinds == {"prefix", "rotated", "constants", "mixed"}

\* a module input port of w bits, numbered as the synthesizer numbers them
PackPortBits(w) == [j \in 1..w |-> Bit(j + 1)]

\* the bits a cell connection hands to packBits: the port's first bits in
\* order, the port's bits starting at the second, literals, or the port's
\* first bits with a literal 1 on top
RequestBits(r) ==
  [j \in 1..r.count |->
    CASE r.kind = "prefix" -> Bit(j + 1)
      [] r.kind = "rotated" -> Bit((j % r.width) + 2)
      [] r.kind = "constants" -> Lit(IF j % 2 = 1 THEN "1" ELSE "0")
      [] r.kind = "mixed" -> IF j = r.count THEN Lit("1") ELSE Bit(j + 1)]

PackRequests ==
  {r \in [width : 2..MaxPackWidth, size : {8, 16}, kind : PackKinds, count : 1..MaxPackWidth] :
     r.count <= r.width /\ r.size >= resolveSize(r.width)}

InitPack ==
  /\ pc = "pack-input"
  /\ \E r \in PackRequests : pack = [NoPack EXCEPT !.request = r]
  /\ components = <<>>
  /\ nets = <<>>
  /\ netOrder = <<>>
  /\ counter = [zero |-> 0, one |-> 0]
  /\ err = "none"
  /\ ports = <<>>
  /\ cells = <<>>
  /\ layout = NoLayout
  /\ payload = NoPayload
  /\ wire = NoWire
  /\ save = NoSave
  /\ driver = NoDriver
  /\ binarySink = NoSink
  /\ firstRun = NoRun

\* the module's multi-bit input port "a" is lowered to an input component
\* and its splitters
LowerBusInput ==
  /\ pc = "pack-input"
  /\ LET st == LowerInputBus(PackState(CurGraph, pack.compCounter, NoNet), "a",
                             PackPortBits(pack.request.width))
     IN /\ Commit(st.g, "pack-bits")
        /\ pack' = [pack EXCEPT !.compCounter = st.compCounter]
  /\ UNCHANGED <<ports, cells, layout, payload, wire, save, driver, binarySink, firstRun>>

\* a cell's connection is normalized and packed into a bus of the cell's size
PackBits ==
  /\ pc = "pack-bits"
  /\ LET normalized == NormalizeBits(RequestBits(pack.request), counter)
         st == packBits(PackState([CurGraph EXCEPT !.counter = normalized.counter],
                                  pack.compCounter, NoNet),
                        normalized.infos, pack.request.size)
     IN /\ Commit(st.g, "packed")
        /\ pack' = [pack EXCEPT !.bits = normalized.infos, !.size = pack.request.size,
                                !.compCounter = st.compCounter, !.done = TRUE,
                                !.bus = st.bus]
  /\ UNCHANGED <<ports, cells, layout, payload, wire, save, driver, binarySink, firstRun>>

NextPack == LowerBusInput \/ PackBits

SpecPack == InitPack /\ [][NextPack]_vars

\* What a net carries.  A bit is a constant, bit i of a bus nothing in the
\* graph composes (an input component's), or the 1-bit net itself.
ConstSignal(v) == [kind |-> "const", value |-> v, net |-> NoNet]
BusBitSignal(busId, i) == [kind |-> "bus", value |-> i, net |-> busId]
WireSignal(id) == [kind |-> "wire", value |-> 0, net |-> id]

\* the index i of an `out${i}` port
OutIndex(p) == CHOOSE i \in 0..7 : OutName(i) = p

RECURSIVE BusBit(_, _, _)
RECURSIVE SignalOfNet(_, _)
\* the bit a 1-bit net carries: a constant component's value, the bus bit a
\* 1-bit splitter output taps, or the net's own signal
SignalOfNet(g, id) ==
  LET src == GetNet(g.nets, id).source
      k == FindIndex(g.components, src.componentId)
  IN IF src = NoRef \/ k = 0 THEN WireSignal(id)
     ELSE IF g.components[k].template = "CONST_0" THEN ConstSignal(0)
     ELSE IF g.components[k].template = "CONST_1" THEN ConstSignal(1)
     ELSE IF g.components[k].template = "SPLITTER_8"
             /\ "in" \in DOMAIN g.components[k].connections
     THEN BusBit(g, g.components[k].connections["in"], OutIndex(src.portId))
     ELSE WireSignal(id)

\* bit i of the bus a net carries: a maker composes its inputs, a constant
\* component carries its setting, a wide splitter's output is a byte of the
\* splitter's input
BusBit(g, busId, i) ==
  LET src == GetNet(g.nets, busId).source
      k == FindIndex(g.components, src.componentId)
  IN IF src = NoRef \/ k = 0 THEN BusBitSignal(busId, i)
     ELSE IF g.components[k].template = "MAKER_8"
     THEN IF InName(i) \in DOMAIN g.components[k].connections
          THEN SignalOfNet(g, g.components[k].connections[InName(i)])
          ELSE BusBitSignal(busId, i)
     ELSE IF IsMaker(g.components[k].template)
     THEN IF InName(i \div 8) \in DOMAIN g.components[k].connections
          THEN BusBit(g, g.components[k].connections[InName(i \div 8)], i % 8)
          ELSE BusBitSignal(busId, i)
     ELSE IF g.components[k].template \in CONST_MULTI_IDS
     THEN ConstSignal((g.components[k].setting1 \div (2 ^ i)) % 2)
     ELSE IF IsSplitter(g.components[k].template)
             /\ "in" \in DOMAIN g.components[k].connections
     THEN BusBit(g, g.components[k].connections["in"], OutIndex(src.portId) * 8 + i)
     ELSE BusBitSignal(busId, i)

\* the bit a bit info handed to packBits stands for
SignalOfBit(g, b) ==
  IF b.constant = "1" THEN ConstSignal(1)
  ELSE IF b.constant = "0" THEN ConstSignal(0)
  ELSE SignalOfNet(g, b.id)

\* the returned bus carries the given bits in its low positions and 0 above
PackedBusCarriesBits ==
  \A i \in 0..(pack.size - 1) :
    BusBit(CurGraph, pack.bus, i)
      = IF i < Len(pack.bits) THEN SignalOfBit(CurGraph, pack.bits[i + 1])
        ELSE ConstSignal(0)

\* the bits are the leading outputs of a splitter of the bus's size, and
\* fewer than the splitter has
ShortcutOnFewerBits ==
  /\ Len(pack.bits) < pack.size
  /\ SplitterBusOf(CurGraph, pack.bits, pack.size) # NoNet

\* C20: packBits(bits, size), for 1 <= |bits| <= size, returns a net that
\* carries a size-wide bus whose bit i is bits[i] for i < |bits| and constant
\* 0 for |bits| <= i < size, also when the bits are the first |bits| outputs,
\* in order, of a splitter of the same size
C20_PackedBusIsBitsThenZeros ==
  pc = "packed" => PackedBusCarriesBits

\* packBits returns such a bus whenever the bits are not the leading
\* outputs, fewer than all, of a splitter of the bus's size
C20_HoldsWithoutShortcutOnFewerBits ==
  (pc = "packed" /\ ~ShortcutOnFewerBits) => PackedBusCarriesBits

----------------------------------------------------------------------------
(* Constant folding of whole modules *)

\* the most cells a folded module has
MaxFoldCells == 2

\* the bit driven by the cell after cell k, the first after the last
NextCellBit(k, n) == CellBit((k % n) + 1)

\* cell k of n: an AND of an input, of a literal 0 or of the next cell's
\* output, an OR, or a multiplexer of inputs or of the next cell's output
FoldCells(k, n) ==
  {Gate("$and", A, Bit(3), CellBit(k)) : A \in {Bit(2), Lit("0"), NextCellBit(k, n)}}
  \cup {Gate("$or", Bit(2), NextCellBit(k, n), CellBit(k))}
  \cup {Mux(A, Bit(3), Bit(4), CellBit(k)) : A \in {Bit(2), NextCellBit(k, n)}}

RECURSIVE FoldCellLists(_, _)
FoldCellLists(k, n) ==
  IF k = 0 THEN {<<>>}
  ELSE {Append(cs, [name |-> CellNames[k], cell |-> c]) :
          cs \in FoldCellLists(k - 1, n), c \in FoldCells(k, n)}

\* modules of up to maxCells cells over the inputs a, b, s, with an output
\* port on one of the cells or none
FoldModules(maxCells) ==
  UNION {{[ports |-> InputPorts(3) \o outs, cells |-> cs] :
            cs \in FoldCellLists(n, Max2(n, 1)),
            outs \in {<<>>} \cup
                     {<<[name |-> OutputNames[1], direction |-> "output",
                         bits |-> <<CellBit(k)>>]>> : k \in 1..n}} :
         n \in 0..maxCells}

InitFold ==
  /\ pc = "module"
  /\ \E module \in FoldModules(MaxFoldCells) :
       /\ ports = module.ports
       /\ cells = module.cells
  /\ components = <<>>
  /\ nets = <<>>
  /\ netOrder = <<>>
  /\ counter = [zero |-> 0, one |-> 0]
  /\ err = "none"
  /\ layout = NoLayout
  /\ payload = NoPayload
  /\ wire = NoWire
  /\ save = NoSave
  /\ driver = NoDriver
  /\ binarySink = NoSink
  /\ firstRun = NoRun
  /\ pack = NoPack

\* buildNetlistFromYosys on the module
LowerModule ==
  /\ pc = "module"
  /\ Commit(buildNetlistFromYosys(CurGraph, [ports |-> ports, cells |-> cells]), "lowered")
  /\ UNCHANGED <<ports, cells, layout, payload, wire, save, driver, binarySink, firstRun, pack>>

NextFold == LowerModule \/ OptimizeNetlist

SpecFold == InitFold /\ [][NextFold]_vars

\* the netlist optimizeNetlist was given
Lowered == buildNetlistFromYosys(CurGraph, [ports |-> ports, cells |-> cells])

\* the nets an input of the gate is attached to: by the gate's connections,
\* or by a net's sink list
AttachedInputs(g, c) ==
  {c.connections[p] : p \in {"A", "B"} \cap DOMAIN c.connections}
  \cup {n \in DOMAIN g.nets :
          \E j \in 1..Len(g.nets[n].sinks) :
            /\ g.nets[n].sinks[j].componentId = c.id
            /\ g.nets[n].sinks[j].portId \in {"A", "B"}}

\* the nets the gate's output drives
DrivenOutputs(g, c) ==
  {c.connections[p] : p \in {"Y"} \cap DOMAIN c.connections}
  \cup {n \in DOMAIN g.nets : g.nets[n].source = PortRef(c.id, "Y")}

RECURSIVE ZeroNetsWithin(_, _, _)
\* zero, and the outputs of the AND_1 gates with an input on a net of zero,
\* steps times over
ZeroNetsWithin(g, zero, steps) ==
  IF steps = 0 THEN zero
  ELSE ZeroNetsWithin(g,
         zero \cup UNION {DrivenOutputs(g, g.components[i]) :
                            i \in {i \in 1..Len(g.components) :
                                     /\ g.components[i].template = "AND_1"
                                     /\ AttachedInputs(g, g.components[i]) \cap zero # {}}},
         steps - 1)

\* the zero nets: the outputs of the zero constants and, transitively, of the
\* AND_1 gates with a zero input
TransitiveZeroNets(g) == ZeroNetsWithin(g, ZeroNets(g.components), Len(g.components))

\* C21: after constant folding no AND_1 gate remains that had an input on a
\* zero net, whatever the order of the gates in the component list
C21_NoAndOnZeroNetRemains ==
  pc = "optimized" =>
    \A i \in 1..Len(Lowered.components) :
      (/\ Lowered.components[i].template = "AND_1"
       /\ AttachedInputs(Lowered, Lowered.components[i])
            \cap TransitiveZeroNets(Lowered) # {})
        => ~HasComponent(components, Lowered.components[i].id)

\* C22: constant folding deletes an AND_1 gate only if one of its inputs is
\* on a zero net
C22_OnlyAndsOnZeroNetsDeleted ==
  pc = "optimized" =>
    \A i \in 1..Len(Lowered.components) :
      (/\ Lowered.components[i].template = "AND_1"
       /\ ~HasComponent(components, Lowered.components[i].id))
        => AttachedInputs(Lowered, Lowered.components[i])
             \cap TransitiveZeroNets(Lowered) # {}

----------------------------------------------------------------------------
(* Lowering of modules with multi-bit ports and cells (adapter.ts) *)

\* the element of a one-element set: a statement's result, computed once
TheOne(S) == CHOOSE v \in S : TRUE

\* the next statement, run on the finished result of the one before
Once(v, Statement(_)) == TheOne({Statement(x) : x \in {v}})

\* `LESSI_${size}` or `LESSU_${size}`
CompareTemplate(signed, size) ==
  IF signed
  THEN CASE size = 8 -> "LESSI_8" [] size = 16 -> "LESSI_16"
         [] size = 32 -> "LESSI_32" [] size = 64 -> "LESSI_64"
  ELSE CASE size = 8 -> "LESSU_8" [] size = 16 -> "LESSU_16"
         [] size = 32 -> "LESSU_32" [] size = 64 -> "LESSU_64"

OutputTemplate(size) ==
  CASE size = 8 -> "OUTPUT_8" [] size = 16 -> "OUTPUT_16"
    [] size = 32 -> "OUTPUT_32" [] size = 64 -> "OUTPUT_64"

\* the comparison's result: connect the packed operands, the output net,
\* the inverter of $ge/$le, and drive Y
CompareResult(st, cellName, cell, aPacked, bPacked) ==
  LET instanceId == CompId(cellName, "")
      swap == cell.type \in {"$gt", "$le"}
      invert == cell.type \in {"$ge", "$le"}
      portA == IF swap THEN bPacked ELSE aPacked
      portB == IF swap THEN aPacked ELSE bPacked
      cmpOut == NetId("_cmp_out", cellName, 0)
      notId == CompId(cellName, "_invert")
      notOut == NetId("_invert_out", cellName, 0)
      Compared(g) ==
        registerSource(
          Connect(registerSink(registerSink(
                    Connect(Connect(g, instanceId, "A", portA), instanceId, "B", portB),
                    portA, PortRef(instanceId, "A")), portB, PortRef(instanceId, "B")),
                  instanceId, "out", cmpOut),
          cmpOut, PortRef(instanceId, "out"))
      Inverted(g) ==
        IF ~invert THEN g
        ELSE registerSource(
               Connect(registerSink(
                         Connect(Push(g, instantiate("NOT_1", notId)), notId, "A", cmpOut),
                         cmpOut, PortRef(notId, "A")),
                       notId, "Y", notOut),
               notOut, PortRef(notId, "Y"))
      Driven(g, yBits) ==
        unpackBits([st EXCEPT !.g = [g EXCEPT !.counter = yBits.counter]],
                   IF invert THEN notOut ELSE cmpOut, yBits.infos, 1)
  IN TheOne({IF g.err # "none" THEN [st EXCEPT !.g = g]
             ELSE IF ensureArrayFails(cell, "Y", 0)
             THEN [st EXCEPT !.g = Throw(g, "Expected connection")]
             ELSE TheOne({Driven(g, yBits) :
                            yBits \in {NormalizeBits(cell.connections["Y"], g.counter)}}) :
               g \in {Inverted(Compared(st.g))}})

\* "Comparisons: $lt, $gt, $le, $ge"
LowerCompare(st, cellName, cell) ==
  LET size == resolveSize(Max2(parseParamInt(cell, "A_WIDTH"), parseParamInt(cell, "B_WIDTH")))
      signed == parseParamInt(cell, "A_SIGNED") > 0
      instanceId == CompId(cellName, "")
  IN IF size = 0 THEN [st EXCEPT !.g = Throw(st.g, "Unsupported width")]
     ELSE IF size = 1 THEN [st EXCEPT !.g = Throw(st.g, "Unknown component template")]
     ELSE IF \E p \in {"A", "B"} : ensureArrayFails(cell, p, 0)
     THEN [st EXCEPT !.g = Throw(Push(st.g, instantiate(CompareTemplate(signed, size),
                                                        instanceId)),
                                 "Expected connection")]
     ELSE TheOne(
       {TheOne(
          {TheOne({TheOne({CompareResult(stB, cellName, cell, stA.bus, stB.bus) :
                             stB \in {packBits(stA, bBits.infos, size)}}) :
                     stA \in {packBits([st EXCEPT !.g = [Push(st.g,
                                           instantiate(CompareTemplate(signed, size),
                                                       instanceId))
                                         EXCEPT !.counter = bBits.counter]],
                                       aBits.infos, size)}}) :
             bBits \in {NormalizeBits(cell.connections["B"], aBits.counter)}}) :
          aBits \in {NormalizeBits(cell.connections["A"], st.g.counter)}})

\* the multi-bit branch of the loop over the module's output ports
LowerOutputBus(st, portName, portBits) ==
  LET size == resolveSize(Len(portBits))
      componentId == CompId(portName, "out:")
      inst == [instantiate(OutputTemplate(size), componentId) EXCEPT !.label = portName]
      bits == NormalizeBits(portBits, st.g.counter)
      g1 == [Push(st.g, inst) EXCEPT !.counter = bits.counter]
      st1 == packBits([st EXCEPT !.g = g1], bits.infos, size)
      g2 == Connect(st1.g, componentId, "in", st1.bus)
  IN [st1 EXCEPT !.g = registerSink(g2, st1.bus, PortRef(componentId, "in"))]

MuxTemplate(size) ==
  CASE size = 8 -> "MUX_8" [] size = 16 -> "MUX_16"
    [] size = 32 -> "MUX_32" [] size = 64 -> "MUX_64"
RegTemplate(size) ==
  CASE size = 1 -> "REG_1" [] size = 8 -> "REG_8" [] size = 16 -> "REG_16"
    [] size = 32 -> "REG_32" [] size = 64 -> "REG_64"

\* a NOT_1 from inWire to outWire
AddNot(g, notId, inWire, outWire) ==
  registerSource(
    Connect(registerSink(Connect(Push(g, instantiate("NOT_1", notId)), notId, "A", inWire),
                         inWire, PortRef(notId, "A")),
            notId, "Y", outWire),
    outWire, PortRef(notId, "Y"))

\* a two-input gate from aWire and bWire to yWire
AddGate2(g, template, id, aWire, bWire, yWire) ==
  registerSource(
    Connect(registerSink(
              Connect(registerSink(Connect(Push(g, instantiate(template, id)), id, "A", aWire),
                                   aWire, PortRef(id, "A")),
                      id, "B", bWire),
              bWire, PortRef(id, "B")),
            id, "Y", yWire),
    yWire, PortRef(id, "Y"))

\* a MUX_n: S, then B, then A, then Y
AddMux(g, template, id, sWire, bWire, aWire, yWire) ==
  registerSource(
    Connect(registerSink(
              Connect(registerSink(
                        Connect(registerSink(
                                  Connect(Push(g, instantiate(template, id)), id, "S", sWire),
                                  sWire, PortRef(id, "S")),
                                id, "B", bWire),
                        bWire, PortRef(id, "B")),
                      id, "A", aWire),
              aWire, PortRef(id, "A")),
            id, "Y", yWire),
    yWire, PortRef(id, "Y"))

\* the ids of the 1-bit "Mux Gate Logic" of $sdffe: the enable mux and the
\* reset mux
SdffeMuxIds(which) ==
  IF which = "en"
  THEN [notS |-> "_en_mux_notS", notSOut |-> "_en_mux_notS_out",
        term1 |-> "_en_mux_term1", term1Out |-> "_en_mux_term1_out",
        term2 |-> "_en_mux_term2", term2Out |-> "_en_mux_term2_out",
        or |-> "_en_mux_or", orOut |-> "_en_mux_or_out",
        mux |-> "_en_mux", muxOut |-> "_en_mux_out"]
  ELSE [notS |-> "_rst_mux_notS", notSOut |-> "_rst_mux_notS_out",
        term1 |-> "_rst_mux_term1", term1Out |-> "_rst_mux_term1_out",
        term2 |-> "_rst_mux_term2", term2Out |-> "_rst_mux_term2_out",
        or |-> "_rst_mux_or", orOut |-> "_rst_mux_or_out",
        mux |-> "_rst_mux", muxOut |-> "_rst_mux_out"]

\* the net the mux of $sdffe drives
SdffeMuxOut(cellName, which, size) ==
  NetId(IF size = 1 THEN SdffeMuxIds(which).orOut ELSE SdffeMuxIds(which).muxOut, cellName, 0)

\* "4a. Inner Mux" and "4b. Outer Mux": S ? B : A, as NOT, two ANDs and an
\* OR for size 1, as a MUX_n otherwise
SdffeMux(g, cellName, which, size, sWire, bWire, aWire) ==
  LET ids == SdffeMuxIds(which)
      notSWire == NetId(ids.notSOut, cellName, 0)
      term1Wire == NetId(ids.term1Out, cellName, 0)
      term2Wire == NetId(ids.term2Out, cellName, 0)
  IN IF size = 1
     THEN Once(AddNot(g, CompId(cellName, ids.notS), sWire, notSWire), LAMBDA g1 :
          Once(AddGate2(g1, "AND_1", CompId(cellName, ids.term1), notSWire, aWire, term1Wire),
               LAMBDA g2 :
          Once(AddGate2(g2, "AND_1", CompId(cellName, ids.term2), sWire, bWire, term2Wire),
               LAMBDA g3 :
          AddGate2(g3, "OR_1", CompId(cellName, ids.or), term1Wire, term2Wire,
                   SdffeMuxOut(cellName, which, size)))))
     ELSE AddMux(g, MuxTemplate(size), CompId(cellName, ids.mux), sWire, bWire, aWire,
                 SdffeMuxOut(cellName, which, size))

\* "1. Signals processing" of one of CLK, SRST, EN: the wire, after a NOT_1
\* when the polarity parameter is 0
SdffeSignalWire(g, cellName, cell, port, invKind, polarity) ==
  IF parseParamInt(cell, polarity) = 0 THEN NetId(invKind, cellName, 0)
  ELSE Norm(g, cell.connections[port][1]).id

SdffeSignal(g, cellName, cell, port, notRole, invKind, polarity) ==
  IF g.err # "none" THEN g
  ELSE IF ensureArrayFails(cell, port, 1) THEN Throw(g, "Expected connection")
  ELSE IF parseParamInt(cell, polarity) = 0
  THEN AddNot(Bump(g, cell.connections[port][1]), CompId(cellName, notRole),
              Norm(g, cell.connections[port][1]).id, NetId(invKind, cellName, 0))
  ELSE Bump(g, cell.connections[port][1])

RECURSIVE BinaryValue(_)
\* BigInt("0b" + SRST_VALUE): the digits, most significant first
BinaryValue(digits) ==
  IF digits = <<>> THEN 0
  ELSE 2 * BinaryValue(SubSeq(digits, 1, Len(digits) - 1))
       + (IF digits[Len(digits)] = "1" THEN 1 ELSE 0)

\* "Reset Val": the constant component of the reset value
SdffeResetValue(g, cellName, cell, size) ==
  LET srstVal == BinaryValue(IF "SRST_VALUE" \in DOMAIN cell.parameters
                             THEN cell.parameters["SRST_VALUE"] ELSE <<"0">>)
      constId == CompId(cellName, "_rst_val")
      rstBusId == NetId("_rst_val_out", cellName, 0)
      inst == IF size = 1
              THEN instantiate(IF srstVal % 2 = 1 THEN "CONST_1" ELSE "CONST_0", constId)
              ELSE [instantiate(ConstTemplate(size), constId) EXCEPT !.setting1 = srstVal]
  IN registerSource(Connect(Push(g, inst), constId, "out", rstBusId), rstBusId,
                    PortRef(constId, "out"))

\* "5. Connect Register"
SdffeRegister(g, cellName, size, finalVal, clkWire) ==
  LET regId == CompId(cellName, "_reg")
      regOut == NetId("_reg_out", cellName, 0)
      loadConstId == CompId(cellName, "_load_const")
      loadWire == NetId("_load_const_out", cellName, 0)
      g1 == registerSink(Connect(Push(g, instantiate(RegTemplate(size), regId)),
                                 regId, "value", finalVal),
                         finalVal, PortRef(regId, "value"))
      g2 == registerSink(Connect(g1, regId, "save", clkWire), clkWire, PortRef(regId, "save"))
      g3 == IF size = 1 THEN g2
            ELSE registerSink(
                   Connect(registerSource(
                             Connect(Push(g2, instantiate("CONST_1", loadConstId)),
                                     loadConstId, "out", loadWire),
                             loadWire, PortRef(loadConstId, "out")),
                           regId, "load", loadWire),
                   loadWire, PortRef(regId, "load"))
  IN registerSource(Connect(g3, regId, "out", regOut), regOut, PortRef(regId, "out"))

\* $sdffe, after its D operand has been packed
SdffeAfterD(st, cellName, cell, size, clkWire, srstWire, enWire) ==
  LET regOut == NetId("_reg_out", cellName, 0)
      rstBusId == NetId("_rst_val_out", cellName, 0)
  IN Once(SdffeMux(st.g, cellName, "en", size, enWire, st.bus, regOut), LAMBDA g1 :
     Once(SdffeMux(g1, cellName, "rst", size, srstWire, rstBusId,
                   SdffeMuxOut(cellName, "en", size)), LAMBDA g2 :
     Once(SdffeRegister(g2, cellName, size, SdffeMuxOut(cellName, "rst", size), clkWire),
          LAMBDA g :
       IF g.err # "none" THEN [st EXCEPT !.g = g]
       ELSE IF ensureArrayFails(cell, "Q", 0)
       THEN [st EXCEPT !.g = Throw(g, "Expected connection")]
       ELSE Once(NormalizeBits(cell.connections["Q"], g.counter), LAMBDA qBits :
              unpackBits([st EXCEPT !.g = [g EXCEPT !.counter = qBits.counter]],
                         regOut, qBits.infos, size)))))

\* "Synchronous D-Flip-Flop with Enable ($sdffe)"
LowerSdffe(st, cellName, cell) ==
  LET size == resolveSize(parseParamInt(cell, "WIDTH")) IN
  IF size = 0 THEN [st EXCEPT !.g = Throw(st.g, "Unsupported width")]
  ELSE
  Once(SdffeSignal(st.g, cellName, cell, "CLK", "_clk_not", "_clk_inv", "CLK_POLARITY"),
       LAMBDA gClk :
  Once(SdffeSignal(gClk, cellName, cell, "SRST", "_srst_not", "_srst_inv", "SRST_POLARITY"),
       LAMBDA gSrst :
  Once(SdffeSignal(gSrst, cellName, cell, "EN", "_en_not", "_en_inv", "EN_POLARITY"),
       LAMBDA gEn :
  Once(SdffeResetValue(gEn, cellName, cell, size), LAMBDA g :
    IF g.err # "none" THEN [st EXCEPT !.g = g]
    ELSE IF ensureArrayFails(cell, "D", 0)
    THEN [st EXCEPT !.g = Throw(g, "Expected connection")]
    ELSE
    Once(NormalizeBits(cell.connections["D"], g.counter), LAMBDA dBits :
    Once(packBits([st EXCEPT !.g = [g EXCEPT !.counter = dBits.counter]], dBits.infos, size),
         LAMBDA stD :
      SdffeAfterD(stD, cellName, cell, size,
                  SdffeSignalWire(st.g, cellName, cell, "CLK", "_clk_inv", "CLK_POLARITY"),
                  SdffeSignalWire(gClk, cellName, cell, "SRST", "_srst_inv", "SRST_POLARITY"),
                  SdffeSignalWire(gSrst, cellName, cell, "EN", "_en_inv",
                                  "EN_POLARITY"))))))))

\* one cell of the loop over the module's cells, for the cell types whose
\* operands are packed into buses
LowerBusCell(st, cellName, cell) ==
  CASE cell.type \in {"$lt", "$gt", "$le", "$ge"} -> LowerCompare(st, cellName, cell)
    [] cell.type = "$sdffe" -> LowerSdffe(st, cellName, cell)

\* one port of the loop over the module's ports of one direction
LowerBusPort(st, port, direction) ==
  IF port.direction # direction THEN st
  ELSE IF resolveSize(Len(port.bits)) = 0
  THEN [st EXCEPT !.g = Throw(st.g, "Unsupported width")]
  ELSE IF resolveSize(Len(port.bits)) = 1
  THEN [st EXCEPT !.g = IF direction = "input"
                         THEN LowerInputPort(st.g, port.name, port.bits[1])
                         ELSE LowerOutputPort(st.g, port.name, port.bits[1])]
  ELSE IF direction = "input" THEN LowerInputBus(st, port.name, port.bits)
  ELSE LowerOutputBus(st, port.name, port.bits)

\* the loop over the module's ports of one direction, from port k on
RECURSIVE LowerBusPortsFrom(_, _, _, _)
LowerBusPortsFrom(st, ps, direction, k) ==
  IF k > Len(ps) \/ st.g.err # "none" THEN st
  ELSE TheOne({LowerBusPortsFrom(next, ps, direction, k + 1) :
                 next \in {LowerBusPort(st, ps[k], direction)}})

RECURSIVE LowerBusCellsFrom(_, _, _)
LowerBusCellsFrom(st, cs, k) ==
  IF k > Len(cs) \/ st.g.err # "none" THEN st
  ELSE TheOne({LowerBusCellsFrom(next, cs, k + 1) :
                 next \in {LowerBusCell(st, cs[k].name, cs[k].cell)}})

\* buildNetlistFromYosys up to the end of its three loops
LoweredLoops(module) ==
  TheOne({LowerBusPortsFrom(afterCells, module.ports, "output", 1) :
            afterCells \in
              {LowerBusCellsFrom(afterInputs, module.cells, 1) :
                 afterInputs \in
                   {LowerBusPortsFrom(PackState(FreshGraph(CurGraph), 0, NoNet),
                                      module.ports, "input", 1)}}})

\* a comparison cell
Compare(type, signed, A, B, Y) ==
  [type |-> type, connections |-> [A |-> A, B |-> B, Y |-> <<Y>>],
   parameters |-> [A_WIDTH |-> Len(A), B_WIDTH |-> Len(B),
                   A_SIGNED |-> signed, B_SIGNED |-> signed, Y_WIDTH |-> 1]]

MaxBusWidth == 32

BusWidths(maxWidth) == {4, 8, 16, maxWidth}

\* the first n bits of the w-bit port "a", zero literals above the port
BusBits(w, n) == [j \in 1..n |-> IF j <= w THEN Bit(j + 1) ELSE Lit("0")]

AlternatingBits(n) == [j \in 1..n |-> Lit(IF j % 2 = 1 THEN "1" ELSE "0")]

\* the bit a comparison drives
CompareBit == Bit(200)

BusCellLists(w) ==
  {<<>>} \cup
  {<<[name |-> CellNames[1],
      cell |-> Compare(type, signed, BusBits(w, Min2(w, 8)), AlternatingBits(Min2(w, 8)),
                       CompareBit)]>> :
     type \in {"$lt", "$ge"}, signed \in {0, 1}}

BusOutputLists(w, cs, maxWidth) ==
  {<<>>}
  \cup {<<[name |-> OutputNames[1], direction |-> "output", bits |-> BusBits(w, n)]>> :
          n \in BusWidths(maxWidth) \cup {12}}
  \cup (IF cs = <<>> THEN {}
        ELSE {<<[name |-> OutputNames[1], direction |-> "output", bits |-> <<CompareBit>>]>>})

\* modules with one multi-bit input port, at most one comparison of its low
\* bits with a literal, and at most one output port reading the input's bits
BusModulesOf(w, maxWidth) ==
  UNION {{[ports |-> <<[name |-> InputNames[1], direction |-> "input",
                        bits |-> BusBits(w, w)]>> \o outs,
           cells |-> cs] :
            outs \in BusOutputLists(w, cs, maxWidth)} :
         cs \in BusCellLists(w)}

BusModules(maxWidth) == UNION {BusModulesOf(w, maxWidth) : w \in BusWidths(maxWidth)}

InitBus ==
  /\ pc = "bus-module"
  /\ \E module \in BusModules(MaxBusWidth) :
       /\ ports = module.ports
       /\ cells = module.cells
  /\ components = <<>>
  /\ nets = <<>>
  /\ netOrder = <<>>
  /\ counter = [zero |-> 0, one |-> 0]
  /\ err = "none"
  /\ layout = NoLayout
  /\ payload = NoPayload
  /\ wire = NoWire
  /\ save = NoSave
  /\ driver = NoDriver
  /\ binarySink = NoSink
  /\ firstRun = NoRun
  /\ pack = NoPack

\* buildNetlistFromYosys' loops over input ports, cells and output ports
LowerLoops ==
  /\ pc = "bus-module"
  /\ LET st == LoweredLoops([ports |-> ports, cells |-> cells])
     IN /\ Commit(st.g, "loops-done")
        /\ pack' = [pack EXCEPT !.compCounter = st.compCounter]
  /\ UNCHANGED <<ports, cells, layout, payload, wire, save, driver, binarySink, firstRun>>

\* components = optimizeMakerSplitterPairs(components, nets)
MergePairs ==
  /\ pc = "loops-done"
  /\ Commit(optimizeMakerSplitterPairs(CurGraph), "merged")
  /\ UNCHANGED <<ports, cells, layout, payload, wire, save, driver, binarySink, firstRun, pack>>

\* components = cleanupRedundantComponents(components, nets), and the return
CleanupComponents ==
  /\ pc = "merged"
  /\ Commit(VerifyDrivers(cleanupRedundantComponents(CurGraph)), "lowered")
  /\ UNCHANGED <<ports, cells, layout, payload, wire, save, driver, binarySink, firstRun, pack>>

NextBus == LowerLoops \/ MergePairs \/ CleanupComponents \/ OptimizeNetlist

SpecBus == InitBus /\ [][NextBus]_vars

----------------------------------------------------------------------------
(* The cleanup pass *)

\* the netlist cleanupRedundantComponents is handed: the module's lowering
\* after the pair merge
Merged == optimizeMakerSplitterPairs(LoweredLoops([ports |-> ports, cells |-> cells]).g)

IsSplitterOrMaker(c) == IsSplitter(c.template) \/ IsMaker(c.template)

\* the splitters and makers of the netlist before that the netlist after lacks
DeletedBy(before, after) ==
  {i \in 1..Len(before.components) :
     /\ IsSplitterOrMaker(before.components[i])
     /\ ~HasComponent(after.components, before.components[i].id)}

\* the nets on the component's input ports
InputNetsOf(c) ==
  {c.connections[p] : p \in {q \in DOMAIN c.connections :
     \E i \in 1..Len(TemplatePorts(c.template)) :
        /\ TemplatePorts(c.template)[i].id = q
        /\ TemplatePorts(c.template)[i].direction = "in"}}

\* the number of passes of cleanupRedundantComponents' while loop
RECURSIVE CleanupPasses(_)
CleanupPasses(g) ==
  LET st == CleanupPass(g.components, 1, [nets |-> g.nets, toRemove |-> {}])
  IN IF st.toRemove = {} THEN 1
     ELSE 1 + CleanupPasses(
            [g EXCEPT !.components = SelectSeq(@, LAMBDA c : c.id \notin st.toRemove),
                      !.nets = st.nets])

NumSplittersAndMakers(g) ==
  Cardinality({i \in 1..Len(g.components) : IsSplitterOrMaker(g.components[i])})

\* C23: the cleanup pass ends after at most one pass per splitter or maker
\* and one more; when it has returned, every splitter and maker left has an
\* output net with a sink, no deleted splitter or maker is still in the sink
\* list of one of its input nets, and no output net of a deleted splitter or
\* maker has a sink
C23_CleanupRemovesExactlyTheUnused ==
  pc = "lowered" =>
    /\ CleanupPasses(Merged) <= NumSplittersAndMakers(Merged) + 1
    /\ \A i \in 1..Len(components) :
         IsSplitterOrMaker(components[i]) => OutUsed(nets, components[i])
    /\ \A i \in DeletedBy(Merged, CurGraph) :
         /\ \A n \in InputNetsOf(Merged.components[i]) \cap DOMAIN nets :
              \A k \in 1..Len(nets[n].sinks) :
                nets[n].sinks[k].componentId # Merged.components[i].id
         /\ ~OutUsed(nets, Merged.components[i])

\* a cleanup of three passes that deleted a splitter whose outputs had sinks
\* before it: the merged maker went first, the splitter in the next pass
C23_Witness ==
  /\ pc = "lowered"
  /\ CleanupPasses(Merged) > 2
  /\ \E i \in DeletedBy(Merged, CurGraph) :
       /\ IsSplitter(Merged.components[i].template)
       /\ OutUsed(Merged.nets, Merged.components[i])

----------------------------------------------------------------------------
(* What a netlist computes: the value on a net, given the values of the
   module's inputs and of its registers.  The wires of the save file are
   drawn from a net's source to its sinks, so a port reads the net that
   lists it as a sink; a port no net lists, and a net without a source,
   carry 0. *)

MaxDepth == 16

\* the templates of `${kind}_${size}`
SizedTemplates(size) ==
  {InputTemplate(size), OutputTemplate(size), ConstTemplate(size), MuxTemplate(size),
   RegTemplate(size), SplitterTemplate(size), MakerTemplate(size),
   CompareTemplate(TRUE, size), CompareTemplate(FALSE, size)}

\* the width of the template's bus: the number in its id
TemplateWidth(t) ==
  IF \E size \in {8, 16, 32, 64} : t \in SizedTemplates(size)
  THEN CHOOSE size \in {8, 16, 32, 64} : t \in SizedTemplates(size)
  ELSE 1

RECURSIVE ValueOfNet(_, _, _, _)
RECURSIVE ValueAtPort(_, _, _, _)

\* the value a component's port reads
ValueAtPort(g, env, ref, fuel) ==
  LET feeding == {n \in DOMAIN g.nets :
                    \E k \in 1..Len(g.nets[n].sinks) : g.nets[n].sinks[k] = ref}
  IN IF feeding = {} \/ fuel = 0 THEN 0
     ELSE SetMax({ValueOfNet(g, env, n, fuel - 1) : n \in feeding})

RECURSIVE SumOfInputs(_, _, _, _, _, _)
\* a maker's bus: input i weighs radix^i
SumOfInputs(g, env, c, fuel, radix, i) ==
  IF i >= Len(InputPortsOf(c.template)) THEN 0
  ELSE (ValueAtPort(g, env, PortRef(c.id, InName(i)), fuel) % radix)
       + radix * SumOfInputs(g, env, c, fuel, radix, i + 1)

\* a two's complement reading of an unsigned value of the given width
AsSigned(v, width) == IF v >= 2 ^ (width - 1) THEN v - 2 ^ width ELSE v

\* the value the net's source drives
ValueOfNet(g, env, n, fuel) ==
  IF n \notin DOMAIN g.nets \/ fuel = 0 THEN 0
  ELSE IF g.nets[n].source = NoRef \/ ~HasComponent(g.components, g.nets[n].source.componentId)
  THEN 0
  ELSE
  LET c == g.components[FindIndex(g.components, g.nets[n].source.componentId)]
      port == g.nets[n].source.portId
      t == c.template
      In(p) == ValueAtPort(g, env, PortRef(c.id, p), fuel)
      size == TemplateWidth(t)
  IN CASE t \in INPUT_N \cup {"INPUT_1"} -> env.inputs[c.label] % (2 ^ size)
       [] t = "CONST_0" -> 0
       [] t = "CONST_1" -> 1
       [] t \in CONST_N -> c.setting1 % (2 ^ size)
       [] t = "NOT_1" -> 1 - In("A")
       [] t = "AND_1" -> In("A") * In("B")
       [] t = "OR_1" -> Max2(In("A"), In("B"))
       [] t \in MUX_N -> IF In("S") = 1 THEN In("B") ELSE In("A")
       [] t \in REG_N \cup {"REG_1"} -> env.q % (2 ^ size)
       [] t = "SPLITTER_8" -> (In("in") \div (2 ^ OutIndex(port))) % 2
       [] t \in WIDE_SPLITTERS -> (In("in") \div (256 ^ OutIndex(port))) % 256
       [] t = "MAKER_8" -> SumOfInputs(g, env, c, fuel, 2, 0)
       [] t \in WIDE_MAKERS -> SumOfInputs(g, env, c, fuel, 256, 0)
       [] t \in {"LESSU_8", "LESSU_16", "LESSU_32", "LESSU_64"} ->
            IF In("A") < In("B") THEN 1 ELSE 0
       [] t \in {"LESSI_8", "LESSI_16", "LESSI_32", "LESSI_64"} ->
            IF AsSigned(In("A"), size) < AsSigned(In("B"), size) THEN 1 ELSE 0
       [] OTHER -> 0

----------------------------------------------------------------------------
(* $sdffe: what the register is handed *)

MaxSdffeWidth == 2

\* the digits of SRST_VALUE for a register of w bits
ResetValues(w) == IF w = 1 THEN {<<"0">>, <<"1">>} ELSE [1..w -> {"0", "1"}]

\* the D operand: the bits of the port d, or literals
SdffeOperands(w) ==
  {[j \in 1..w |-> Bit(4 + j)]} \cup [1..w -> {Lit("0"), Lit("1")}]

Sdffe(w, clkPol, srstPol, enPol, srstValue, D) ==
  [type |-> "$sdffe",
   connections |-> [CLK |-> <<Bit(2)>>, SRST |-> <<Bit(3)>>, EN |-> <<Bit(4)>>,
                    D |-> D, Q |-> [j \in 1..w |-> Bit(20 + j)]],
   parameters |-> [WIDTH |-> w, CLK_POLARITY |-> clkPol, SRST_POLARITY |-> srstPol,
                   EN_POLARITY |-> enPol, SRST_VALUE |-> srstValue]]

\* modules of one $sdffe cell of width w on the inputs clk, srst, en and d,
\* with the output port q on the register
SdffeModulesOf(w) ==
  {[ports |-> <<[name |-> "clk", direction |-> "input", bits |-> <<Bit(2)>>],
                [name |-> "srst", direction |-> "input", bits |-> <<Bit(3)>>],
                [name |-> "en", direction |-> "input", bits |-> <<Bit(4)>>],
                [name |-> "d", direction |-> "input", bits |-> [j \in 1..w |-> Bit(4 + j)]],
                [name |-> "q", direction |-> "output", bits |-> [j \in 1..w |-> Bit(20 + j)]]>>,
    cells |-> <<[name |-> CellNames[1],
                 cell |-> Sdffe(w, clkPol, srstPol, enPol, srstValue, D)]>>] :
     clkPol \in {0, 1}, srstPol \in {0, 1}, enPol \in {0, 1},
     srstValue \in ResetValues(w), D \in SdffeOperands(w)}

SdffeModules(maxWidth) == UNION {SdffeModulesOf(w) : w \in 1..maxWidth}

InitSdffe ==
  /\ pc = "bus-module"
  /\ \E module \in SdffeModules(MaxSdffeWidth) :
       /\ ports = module.ports
       /\ cells = module.cells
  /\ components = <<>>
  /\ nets = <<>>
  /\ netOrder = <<>>
  /\ counter = [zero |-> 0, one |-> 0]
  /\ err = "none"
  /\ layout = NoLayout
  /\ payload = NoPayload
  /\ wire = NoWire
  /\ save = NoSave
  /\ driver = NoDriver
  /\ binarySink = NoSink
  /\ firstRun = NoRun
  /\ pack = NoPack

SpecSdffe == InitSdffe /\ [][NextBus]_vars

\* the values of the module's inputs and of the register's output
SdffeEnvs(w) ==
  [inputs : [clk : {0, 1}, srst : {0, 1}, en : {0, 1}, d : 0..(2 ^ w - 1)],
   q : 0..(2 ^ w - 1)]

\* The D operand's value: the port's value, or the literal's
OperandValue(D, env) ==
  IF D[1].lit = "n" THEN env.inputs.d
  ELSE BinaryValue([j \in 1..Len(D) |-> D[Len(D) + 1 - j].lit])

\* what the cell is to hand the register at a clock edge
SdffeValue(cell, env) ==
  LET w == cell.parameters.WIDTH IN
  IF env.inputs.srst = cell.parameters.SRST_POLARITY
  THEN BinaryValue(cell.parameters.SRST_VALUE) % (2 ^ w)
  ELSE IF env.inputs.en = cell.parameters.EN_POLARITY
  THEN OperandValue(cell.connections.D, env)
  ELSE env.q

\* C24: in the netlist of a module with a $sdffe cell, before and after
\* constant folding, the register's value port reads SRST_VALUE when the
\* reset is active, else D when the enable is active, else the register's
\* own output
C24_SdffeValueIsResetThenEnable ==
  pc \in {"lowered", "optimized"} =>
    \A env \in SdffeEnvs(cells[1].cell.parameters.WIDTH) :
      ValueAtPort(CurGraph, env, PortRef(CompId(cells[1].name, "_reg"), "value"), MaxDepth)
        % (2 ^ cells[1].cell.parameters.WIDTH)
      = SdffeValue(cells[1].cell, env)

\* the same, for cells whose D operand has no literal 1
C24_HoldsWithoutLiteralOne ==
  (/\ pc \in {"lowered", "optimized"}
   /\ \A j \in 1..Len(cells[1].cell.connections.D) : cells[1].cell.connections.D[j].lit # "1")
  =>
    \A env \in SdffeEnvs(cells[1].cell.parameters.WIDTH) :
      ValueAtPort(CurGraph, env, PortRef(CompId(cells[1].name, "_reg"), "value"), MaxDepth)
        % (2 ^ cells[1].cell.parameters.WIDTH)
      = SdffeValue(cells[1].cell, env)

----------------------------------------------------------------------------
(* Constant bits *)

IsConstantNet(n) == n.kind \in {CONST_ZERO_ID, CONST_ONE_ID}

\* C25: in the netlist of the module, every net of a literal constant bit,
\* the zero bits that pad the chunks of a wide bus included, is read by at
\* most one port, so no constant net and no constant driver has two consumers
C25_ConstantNetsHaveOneConsumer ==
  pc \in {"loops-done", "merged", "lowered"} =>
    \A n \in DOMAIN nets : IsConstantNet(n) => Len(nets[n].sinks) <= 1

\* the same, for modules whose output port fills whole 8-bit chunks
C25_HoldsWithoutPaddedChunks ==
  (/\ pc \in {"loops-done", "merged", "lowered"}
   /\ \A k \in 1..Len(ports) : Len(ports[k].bits) % 8 = 0 \/ Len(ports[k].bits) < 8)
  => \A n \in DOMAIN nets : IsConstantNet(n) => Len(nets[n].sinks) <= 1

----------------------------------------------------------------------------
(* Connections and nets *)

\* the port references of a net: its source and its sinks
RefsOfNet(net) ==
  (IF net.source = NoRef THEN {} ELSE {net.source})
  \cup {net.sinks[k] : k \in 1..Len(net.sinks)}

\* C26: in the netlist the lowering returns, and in the one constant folding
\* leaves, every connections entry names a net that exists and that lists
\* the port as its source or a sink, and every port reference of a net is a
\* port whose connections entry names that net
C26_ConnectionsAgreeWithNets ==
  pc \in {"lowered", "optimized"} =>
    /\ \A i \in 1..Len(components) : \A p \in DOMAIN components[i].connections :
         /\ components[i].connections[p] \in DOMAIN nets
         /\ PortRef(components[i].id, p) \in RefsOfNet(nets[components[i].connections[p]])
    /\ \A n \in DOMAIN nets : \A ref \in RefsOfNet(nets[n]) :
         /\ HasComponent(components, ref.componentId)
         /\ ref.portId \in DOMAIN components[FindIndex(components, ref.componentId)].connections
         /\ components[FindIndex(components, ref.componentId)].connections[ref.portId] = n

----------------------------------------------------------------------------
(* Comparisons: what the lowered circuit answers *)

MaxCompareWidth == 3

CompareWidths(maxWidth) == (1..maxWidth) \cup {8}

\* modules of one comparison cell on the w-bit inputs a and b, with the
\* output port y on its result
CompareModulesOf(w) ==
  {[ports |-> <<[name |-> "a", direction |-> "input", bits |-> [j \in 1..w |-> Bit(1 + j)]],
                [name |-> "b", direction |-> "input", bits |-> [j \in 1..w |-> Bit(101 + j)]],
                [name |-> "y", direction |-> "output", bits |-> <<CompareBit>>]>>,
    cells |-> <<[name |-> CellNames[1],
                 cell |-> Compare(type, signed, [j \in 1..w |-> Bit(1 + j)],
                                  [j \in 1..w |-> Bit(101 + j)], CompareBit)]>>] :
     type \in {"$lt", "$gt", "$le", "$ge"}, signed \in {0, 1}}

CompareModules(maxWidth) == UNION {CompareModulesOf(w) : w \in CompareWidths(maxWidth)}

InitCompare ==
  /\ pc = "bus-module"
  /\ \E module \in CompareModules(MaxCompareWidth) :
       /\ ports = module.ports
       /\ cells = module.cells
  /\ components = <<>>
  /\ nets = <<>>
  /\ netOrder = <<>>
  /\ counter = [zero |-> 0, one |-> 0]
  /\ err = "none"
  /\ layout = NoLayout
  /\ payload = NoPayload
  /\ wire = NoWire
  /\ save = NoSave
  /\ driver = NoDriver
  /\ binarySink = NoSink
  /\ firstRun = NoRun
  /\ pack = NoPack

SpecCompare == InitCompare /\ [][NextBus]_vars

\* the values an operand of w bits is tried with: all of them up to three
\* bits, the ends and the sign change above
OperandValues(w) ==
  IF w <= 3 THEN 0..(2 ^ w - 1)
  ELSE {0, 1, 2 ^ (w - 1) - 1, 2 ^ (w - 1), 2 ^ w - 1}

CompareEnvs(w) == [inputs : [a : OperandValues(w), b : OperandValues(w)], q : {0}]

\* the operand's bits read at its declared width and signedness
Interpreted(v, w, signed) == IF signed > 0 THEN AsSigned(v, w) ELSE v

\* what the comparison cell is to answer
CompareValue(cell, env) ==
  LET A == Interpreted(env.inputs.a, cell.parameters.A_WIDTH, cell.parameters.A_SIGNED)
      B == Interpreted(env.inputs.b, cell.parameters.B_WIDTH, cell.parameters.B_SIGNED)
      holds == CASE cell.type = "$lt" -> A < B
                 [] cell.type = "$gt" -> A > B
                 [] cell.type = "$le" -> A <= B
                 [] cell.type = "$ge" -> A >= B
  IN IF holds THEN 1 ELSE 0

\* what the module's output y reads in the netlist
CompareResultValue(env) ==
  ValueAtPort(CurGraph, env, PortRef(CompId("y", "out:"), "in"), MaxDepth)

\* C27: the output of the lowered comparison equals the comparison of A
\* and B read at their declared width and signedness, for the operand
\* values tried, signed operands narrower than the lowered size included
C27_ComparisonAtDeclaredWidth ==
  pc \in {"lowered", "optimized"} =>
    \A env \in CompareEnvs(cells[1].cell.parameters.A_WIDTH) :
      CompareResultValue(env) = CompareValue(cells[1].cell, env)

\* the same, for unsigned operands and for signed operands of 8 bits
C27_HoldsWithoutSignedPadding ==
  (/\ pc \in {"lowered", "optimized"}
   /\ cells[1].cell.parameters.A_SIGNED = 0 \/ cells[1].cell.parameters.A_WIDTH = 8)
  => \A env \in CompareEnvs(cells[1].cell.parameters.A_WIDTH) :
       CompareResultValue(env) = CompareValue(cells[1].cell, env)

----------------------------------------------------------------------------
(* The pair merge *)

\* the netlist optimizeMakerSplitterPairs is handed
LoopsDone == LoweredLoops([ports |-> ports, cells |-> cells]).g

\* the makers the merge disconnected: they had an out connection before it
\* and have none after it
MergedMakers ==
  {k \in 1..Len(LoopsDone.components) :
     /\ IsMaker(LoopsDone.components[k].template)
     /\ "out" \in DOMAIN LoopsDone.components[k].connections
     /\ "out" \notin DOMAIN components[k].connections}

\* the splitter a merged maker's sinks were rewired to
SplitterOfMerged(k) ==
  LoopsDone.components[
    FindIndex(LoopsDone.components,
              RedundantSplitter(LoopsDone.components, LoopsDone.nets, LoopsDone.components[k]))]

\* C28: every maker the pair merge disconnects has the width of the
\* splitter its sinks are rewired to, and its inputs are all the outputs of
\* that splitter
C28_MergeOnlyEqualWidths ==
  pc = "merged" =>
    \A k \in MergedMakers :
      /\ TemplateWidth(SplitterOfMerged(k).template)
           = TemplateWidth(LoopsDone.components[k].template)
      /\ Len(InputPortsOf(LoopsDone.components[k].template))
           = Len(TemplatePorts(SplitterOfMerged(k).template)) - 1

\* the same, for modules whose output port is as wide as the input port
C28_HoldsForEqualPorts ==
  (/\ pc = "merged"
   /\ \A k \in 1..Len(ports) : Len(ports[k].bits) = Len(ports[1].bits))
  => \A k \in MergedMakers :
       TemplateWidth(SplitterOfMerged(k).template)
         = TemplateWidth(LoopsDone.components[k].template)

----------------------------------------------------------------------------
(* Wire kinds *)

\* the kind of the wires drawn from the net's source (wiresFromLayout and
\* the compact branch of createPayload)
WireKindOfNet(g, n) ==
  widthToWireKind(
    getPortWidth(g.components[FindIndex(g.components, g.nets[n].source.componentId)],
                 g.nets[n].source.portId))

\* the number of bits the port carries: one for a gate, a comparator's
\* result and a pin of an 8-bit splitter, eight for a chunk pin of a wider
\* splitter, the template's size for a bus
BitsOfPort(t, portId) ==
  IF t = "SPLITTER_8" THEN 1
  ELSE IF t \in WIDE_SPLITTERS THEN 8
  ELSE IF t \in COMPARE_N THEN 1
  ELSE IF TemplateIdNumber(t) <= 0 THEN 1
  ELSE TemplateIdNumber(t)

\* the nets of the netlist a wire is drawn from
DrivenNets(g) ==
  {n \in DOMAIN g.nets :
     /\ g.nets[n].source # NoRef
     /\ HasComponent(g.components, g.nets[n].source.componentId)
     /\ Len(g.nets[n].sinks) > 0}

\* C29: in the netlist of the module, the kind of the wires of every net
\* is the kind of the number of bits its driving port carries
C29_WireKindIsPortWidth ==
  pc = "lowered" =>
    \A n \in DrivenNets(CurGraph) :
      WireKindOfNet(CurGraph, n)
        = widthToWireKind(BitsOfPort(TemplateOfId(components, nets[n].source.componentId),
                                     nets[n].source.portId))

\* the same, for the nets no comparator and no splitter wider than 8 bits
\* drives
C29_HoldsForBusesAndBits ==
  pc = "lowered" =>
    \A n \in DrivenNets(CurGraph) :
      TemplateOfId(components, nets[n].source.componentId) \notin COMPARE_N \cup WIDE_SPLITTERS
      => WireKindOfNet(CurGraph, n)
           = widthToWireKind(BitsOfPort(TemplateOfId(components, nets[n].source.componentId),
                                        nets[n].source.portId))

----------------------------------------------------------------------------
(* Compact packing (ElkRouter.compactLayout) *)

GRAPH_SCALE == 10
GAP == 1
COL_GAP == 2
IO_SLOT_HEIGHT == 10

LAYOUT_INPUT_KINDS ==
  {"Input1", "Input8", "Input16", "Input32", "Input64", "LevelInput1", "LevelInput8",
   "LevelInput2Pin", "LevelInput3Pin", "LevelInput4Pin", "LevelInputConditions",
   "LevelInputCode", "LevelInputArch"}

LAYOUT_OUTPUT_KINDS ==
  {"Output1", "Output8", "Output16", "Output32", "Output64", "Output1z", "Output8z",
   "Output16z", "Output32z", "Output64z", "LevelOutput1", "LevelOutput8",
   "LevelOutput1Sum", "LevelOutput1Car", "LevelOutput2Pin", "LevelOutput3Pin",
   "LevelOutput4Pin", "LevelOutput8z", "LevelOutputArch", "LevelOutputCounter"}

\* toElkNode: the node the engine is given, GRAPH_SCALE times as large
toElkNode(node, kind) ==
  [id |-> node.id, width |-> node.width * GRAPH_SCALE,
   height |-> node.height * GRAPH_SCALE, kind |-> kind]

\* Math.round(value / GRAPH_SCALE / gridSize) * gridSize
snapScaled(value) == ((2 * value + GRAPH_SCALE) \div (2 * GRAPH_SCALE)) * GRID_SIZE

\* the placement compactLayout makes of a child of the laid-out graph
PlacementOf(child) ==
  [id |-> child.id, x |-> snapScaled(child.x), y |-> snapScaled(child.y),
   width |-> child.width \div GRAPH_SCALE, height |-> child.height \div GRAPH_SCALE,
   kind |-> child.kind, rawX |-> child.x]

\* nodes.sort((a, b) => a._rawX - b._rawX), which keeps the order of equals
RECURSIVE SortByRawXFrom(_, _, _)
SortByRawXFrom(nodes, k, sorted) ==
  IF k > Len(nodes) THEN sorted
  ELSE LET n == Cardinality({i \in 1..Len(sorted) : sorted[i].rawX <= nodes[k].rawX})
       IN SortByRawXFrom(nodes, k + 1,
                         SubSeq(sorted, 1, n) \o <<nodes[k]>>
                           \o SubSeq(sorted, n + 1, Len(sorted)))

IsLayoutInput(node) == node.kind \in LAYOUT_INPUT_KINDS
IsLayoutOutput(node) == node.kind \in LAYOUT_OUTPUT_KINDS
IsLayoutLogic(node) == ~IsLayoutInput(node) /\ ~IsLayoutOutput(node)

getNodeHeight(node) ==
  IF IsLayoutInput(node) \/ IsLayoutOutput(node) THEN IO_SLOT_HEIGHT
  ELSE node.height + GAP

RECURSIVE SumOver(_, _)
\* the sum of the numbers s[k..]
SumOver(s, k) == IF k > Len(s) THEN 0 ELSE s[k] + SumOver(s, k + 1)

\* logicNodes.reduce(...)
LogicArea(logicNodes) ==
  SumOver([i \in 1..Len(logicNodes) |->
             (logicNodes[i].width + COL_GAP) * (logicNodes[i].height + GAP)], 1)

MaxLogicHeight(logicNodes) ==
  SetMax({0} \cup {logicNodes[i].height + GAP : i \in 1..Len(logicNodes)})

\* Math.ceil(Math.sqrt(a))
CeilSqrt(a) == CHOOSE r \in 0..a : r * r >= a /\ (r = 0 \/ (r - 1) * (r - 1) < a)

\* the target raised by the height of an I/O slot
TargetHeight_plusSlot(logicNodes) ==
  SetMax({CeilSqrt(LogicArea(logicNodes)), MaxLogicHeight(logicNodes)}) + IO_SLOT_HEIGHT

TargetHeight(logicNodes) ==
  SetMax({CeilSqrt(LogicArea(logicNodes)), MaxLogicHeight(logicNodes)})

\* packToColumns' loop from list[i] on; col is the open column, h its height
RECURSIVE packToColumnsFrom(_, _, _, _, _, _)
packToColumnsFrom(list, i, col, h, columns, targetHeight) ==
  IF i > Len(list) THEN (IF Len(col) > 0 THEN Append(columns, col) ELSE columns)
  ELSE IF Len(col) > 0 /\ h + getNodeHeight(list[i]) > targetHeight
  THEN packToColumnsFrom(list, i + 1, <<list[i]>>, getNodeHeight(list[i]),
                         Append(columns, col), targetHeight)
  ELSE packToColumnsFrom(list, i + 1, Append(col, list[i]), h + getNodeHeight(list[i]),
                         columns, targetHeight)

packToColumns(columns, list, targetHeight) ==
  packToColumnsFrom(list, 1, <<>>, 0, columns, targetHeight)

ColumnWidth(col) == SetMax({0} \cup {col[j].width : j \in 1..Len(col)})

\* the loop over the nodes col[j..] of one column
RECURSIVE PlaceInColumnFrom(_, _, _, _)
PlaceInColumnFrom(col, j, currentX, currentY) ==
  IF j > Len(col) THEN <<>>
  ELSE LET node == col[j]
           offsetX == (ColumnWidth(col) - node.width) \div 2
           totalH == getNodeHeight(node)
           offsetY == IF totalH = IO_SLOT_HEIGHT
                      THEN (IO_SLOT_HEIGHT - node.height) \div 2
                      ELSE 0
       IN <<[node EXCEPT !.x = currentX + offsetX, !.y = currentY + offsetY]>>
          \o PlaceInColumnFrom(col, j + 1, currentX, currentY + totalH)

\* the loop over the columns columns[k..]
RECURSIVE PlaceColumnsFrom(_, _, _)
PlaceColumnsFrom(columns, k, currentX) ==
  IF k > Len(columns) THEN <<>>
  ELSE PlaceInColumnFrom(columns[k], 1, currentX, 0)
       \o PlaceColumnsFrom(columns, k + 1, currentX + ColumnWidth(columns[k]) + COL_GAP)

\* the columns of the sorted nodes: inputs, then logic, then outputs
ColumnsOf(nodes) ==
  packToColumns(
    packToColumns(
      packToColumns(<<>>, SelectSeq(nodes, IsLayoutInput),
                    TargetHeight(SelectSeq(nodes, IsLayoutLogic))),
      SelectSeq(nodes, IsLayoutLogic), TargetHeight(SelectSeq(nodes, IsLayoutLogic))),
    SelectSeq(nodes, IsLayoutOutput), TargetHeight(SelectSeq(nodes, IsLayoutLogic)))

\* the sorted nodes, each where the column loop has put it
PackedNodes(nodes) ==
  [k \in 1..Len(nodes) |->
     LET placed == PlaceColumnsFrom(ColumnsOf(nodes), 1, 0)
     IN placed[CHOOSE j \in 1..Len(placed) : placed[j].id = nodes[k].id]]

\* the last loop of compactLayout: every node moved by the rounded centre
\* of the bounding box, and _rawX deleted
CenteredNodes(nodes) ==
  IF Len(nodes) = 0 THEN nodes
  ELSE LET minX == SetMin({nodes[i].x : i \in 1..Len(nodes)})
           maxX == SetMax({nodes[i].x + nodes[i].width : i \in 1..Len(nodes)})
           minY == SetMin({nodes[i].y : i \in 1..Len(nodes)})
           maxY == SetMax({nodes[i].y + nodes[i].height : i \in 1..Len(nodes)})
       IN [i \in 1..Len(nodes) |->
             [id |-> nodes[i].id,
              x |-> RoundHalf(2 * nodes[i].x - (minX + maxX)),
              y |-> RoundHalf(2 * nodes[i].y - (minY + maxY)),
              width |-> nodes[i].width, height |-> nodes[i].height,
              kind |-> nodes[i].kind]]

compactLayout(graph) ==
  [nodes |-> CenteredNodes(PackedNodes(
               SortByRawXFrom([i \in 1..Len(graph.children) |->
                                 PlacementOf(graph.children[i])], 1, <<>>))),
   edges |-> <<>>]

\* the netlists packed below have at most this many components
MaxPackedNodes == 5

PackedTemplates == {"INPUT_1", "OUTPUT_1", "AND_1", "MAKER_8"}

PackedRoles == <<":0", ":1", ":2", ":3", ":4", ":5", ":6", ":7">>

PackedNetlists ==
  UNION {{[k \in 1..n |-> instantiate(ts[k], CompId("n", PackedRoles[k]))] :
            ts \in [1..n -> PackedTemplates]} : n \in 1..MaxPackedNodes}

\* what the layout engine returns for the scaled graph: the children from
\* left to right in the order of the nodes, from right to left, or in two
\* layers whose nodes share their x
PackedStyles == {"ascending", "descending", "layers"}

PackedChildX(style, k, n) ==
  CASE style = "ascending" -> 16 * GRAPH_SCALE * (k - 1) + 5 * (k % 2)
    [] style = "descending" -> 16 * GRAPH_SCALE * (n - k)
    [] style = "layers" -> 16 * GRAPH_SCALE * (k % 2)

PackedElk(graph, cs, style) ==
  [children |->
     [k \in 1..Len(graph.nodes) |->
        [x |-> PackedChildX(style, k, Len(graph.nodes)), y |-> 3 * GRAPH_SCALE * (k % 3)]
          @@ toElkNode(graph.nodes[k], TemplateKind(TemplateOfId(cs, graph.nodes[k].id)))],
   edges |-> <<>>]

InitPacked ==
  /\ pc = "netlist"
  /\ components \in PackedNetlists
  /\ nets = <<>>
  /\ netOrder = <<>>
  /\ counter = [zero |-> 0, one |-> 0]
  /\ err = "none"
  /\ ports = <<>>
  /\ cells = <<>>
  /\ layout = NoLayout
  /\ payload = NoPayload
  /\ wire = NoWire
  /\ save = NoSave
  /\ driver = NoDriver
  /\ binarySink = NoSink
  /\ firstRun = NoRun
  /\ pack = NoPack

\* buildLayoutGraph, router.route with compact set, and centerLayout
RoutePacked ==
  /\ pc = "netlist"
  /\ \E style \in PackedStyles :
       layout' = centerLayout(compactLayout(
                   PackedElk(buildLayoutGraph(components, nets, netOrder), components,
                             style)))
  /\ pc' = "packed"
  /\ UNCHANGED <<components, nets, netOrder, counter, err, ports, cells, payload, wire,
                 save, driver, binarySink, firstRun, pack>>

NextPacked == RoutePacked

SpecPacked == InitPacked /\ [][NextPacked]_vars

\* the indices of the layout's nodes of the inputs, the outputs and the rest
InputNodes == {i \in 1..Len(layout.nodes) :
                 IsInputKind(TemplateOfId(components, layout.nodes[i].id))}
OutputNodes == {i \in 1..Len(layout.nodes) :
                  IsOutputKind(TemplateOfId(components, layout.nodes[i].id))}
LogicNodes == (1..Len(layout.nodes)) \ (InputNodes \cup OutputNodes)

Overlap(a, b) ==
  /\ a.x < b.x + b.width /\ b.x < a.x + a.width
  /\ a.y < b.y + b.height /\ b.y < a.y + a.height

LeftOf(a, b) == a.x + a.width < b.x

\* two nodes are in one column when their spans of x meet
SameColumn(a, b) == a.x < b.x + b.width /\ b.x < a.x + a.width

LogicColumn(i) == {j \in LogicNodes : SameColumn(layout.nodes[i], layout.nodes[j])}

NoOverlapAndGroupsInOrder ==
  /\ \A i, j \in 1..Len(layout.nodes) :
       i # j => ~Overlap(layout.nodes[i], layout.nodes[j])
  /\ \A i \in InputNodes : \A j \in LogicNodes \cup OutputNodes :
       LeftOf(layout.nodes[i], layout.nodes[j])
  /\ \A i \in LogicNodes : \A j \in OutputNodes :
       LeftOf(layout.nodes[i], layout.nodes[j])

\* the space from the top of the column's first node to the bottom of its last
ColumnExtent(S) ==
  SetMax({layout.nodes[j].y + layout.nodes[j].height : j \in S})
    - SetMin({layout.nodes[j].y : j \in S})

\* the heights of the column's nodes, each with the gap below it
ColumnSlots(S) ==
  SumOver([j \in 1..Len(layout.nodes) |->
             IF j \in S THEN layout.nodes[j].height + GAP ELSE 0], 1)

NodeAreaBound ==
  SetMax({CeilSqrt(SumOver([j \in 1..Len(layout.nodes) |->
                              IF j \in LogicNodes
                              THEN layout.nodes[j].width * layout.nodes[j].height
                              ELSE 0], 1))}
         \cup {layout.nodes[j].height : j \in LogicNodes})

SlotAreaBound ==
  SetMax({CeilSqrt(SumOver([j \in 1..Len(layout.nodes) |->
                              IF j \in LogicNodes
                              THEN (layout.nodes[j].width + COL_GAP)
                                     * (layout.nodes[j].height + GAP)
                              ELSE 0], 1))}
         \cup {layout.nodes[j].height + GAP : j \in LogicNodes})

\* C30: after compact packing and centering no two rectangles overlap, the
\* inputs are left of the logic and the logic left of the outputs, and a
\* logic column of more than one node is at most
\* max(ceil(sqrt(sum of width * height of the logic nodes)), tallest logic
\* node) high
C30_PackedColumnsWithinNodeArea ==
  pc = "packed" =>
    /\ NoOverlapAndGroupsInOrder
    /\ \A i \in LogicNodes :
         Cardinality(LogicColumn(i)) > 1 => ColumnExtent(LogicColumn(i)) <= NodeAreaBound

\* C30, with the areas and the heights counted as the packing counts them:
\* a node's slot is its height and the gap of 1 below, its area the slot
\* times its width and the column gap of 2; a logic column of more than one
\* node has slots of at most max(ceil(sqrt(sum of the areas)), tallest slot)
C30_PackedColumnsWithinSlotArea ==
  pc = "packed" =>
    /\ NoOverlapAndGroupsInOrder
    /\ \A i \in LogicNodes :
         Cardinality(LogicColumn(i)) > 1 => ColumnSlots(LogicColumn(i)) <= SlotAreaBound

C30_Witness ==
  /\ pc = "packed"
  /\ InputNodes # {}
  /\ OutputNodes # {}
  /\ \E i, j \in LogicNodes :
       /\ Cardinality(LogicColumn(i)) > 1
       /\ ~SameColumn(layout.nodes[i], layout.nodes[j])

====
